---- MODULE Spec2Model ----
(***************************************************************************)
(* State-machine model of pyhuec's event core: EventBus, EventTransformer, *)
(* EventService, EventProducer and EventClient, as scheduled by a single   *)
(* asyncio event loop.  One action is one run of a coroutine between two   *)
(* suspension points.                                                      *)
(***************************************************************************)
EXTENDS Integers, Sequences, FiniteSets, TLC

\* ------------------------------------------------------------------ bounds
\* Each family of runs has its own three bounds: the subscriptions ever
\* created on the bus, the events ever accepted by publish(), and the
\* dispatch tasks ever created by start().
MaxSubs == 1        \* Spec: the bus through stop() and a restart
MaxPublish == 2
MaxStarts == 2
FanSubs == 2        \* SpecFan: several subscriptions, one event
FanPublish == 1
FanStarts == 1
UnsubSubs == 1      \* SpecUnsub: one subscription, events before and after
UnsubPublish == 2
UnsubStarts == 1
FailSubs == 2       \* SpecFail: failing handlers with siblings and successors
FailPublish == 2
FailStarts == 1
FilterSubs == 2     \* SpecFilter: every filter against every event
FilterPublish == 2
FilterStarts == 1
MaxEnvelopes == 2   \* SpecTransform: envelopes of a message,
MaxChanges == 2     \* resource changes of an envelope
SvcSubs == 1        \* SpecService: subscriptions, messages of the bridge,
SvcMessages == 1    \* dispatch tasks
SvcStarts == 2
LiveSubs == 1       \* SpecStream: subscriptions, messages of the bridge,
LiveMessages == 1   \* dispatch tasks
LiveStarts == 1
CtlSubs == 1        \* SpecController: subscriptions, messages of the bridge,
CtlMessages == 1    \* dispatch tasks
CtlStarts == 2
LapSubs == 1        \* SpecOverlap: subscriptions, messages of the bridge,
LapMessages == 1    \* dispatch tasks
LapStarts == 2
DownMessages == 2   \* SpecBusDown: messages of the bridge, dispatch tasks
DownStarts == 2
TableSubs == 2      \* SpecTable: subscriptions made and removed around
TablePublish == 1   \* the dequeue of an event
TableStarts == 1
RawEnvelopeCount == 2   \* SpecRaw: envelopes of an unvalidated message,
RawChanges == 2         \* resource changes of an envelope
HueSubs == 2        \* SpecClient: subscriptions, messages of the bridge,
HueMessages == 1    \* dispatch tasks
HueStarts == 2
MaxLines == 4       \* SpecLines: lines of one connection
MaxFrames == 3      \* SpecFrames: frames listen() yields
AliasCalls == 3     \* SpecAlias: calls on the StateManager and its values
CacheCalls == 3     \* SpecCache: calls made on the StateManager

\* ------------------------------------------------------------- value sets
EventTypes == {"update", "delete"}
ResourceTypes == {"light", "motion"}
ResourceIds == {"r1", "r2"}
HandlerKinds == {"sync", "async", "invalid"}

\* What a publisher passes to publish(): an InternalEventDTO without the
\* sequence number the model gives it when the bus accepts it.
EventShapes == [event_type : EventTypes, resource_type : ResourceTypes,
                resource_id : ResourceIds]

\* One dimension of an EventFilterDTO: None (present = FALSE) or a list.
FilterDims(S) == {[present |-> FALSE, vals |-> {}]} \cup
                 {[present |-> TRUE, vals |-> v] : v \in SUBSET S}

\* EventFilterDTO, or None (none = TRUE) for a subscription without filter.
AbsentDim == [present |-> FALSE, vals |-> {}]
NoFilter == [none |-> TRUE, event_types |-> AbsentDim,
             resource_types |-> AbsentDim, resource_ids |-> AbsentDim]
AllFilters == {NoFilter} \cup
              [none : {FALSE}, event_types : FilterDims(EventTypes),
               resource_types : FilterDims(ResourceTypes),
               resource_ids : FilterDims(ResourceIds)]

LightFilter == [none |-> FALSE, event_types |-> AbsentDim,
                resource_types |-> [present |-> TRUE, vals |-> {"light"}],
                resource_ids |-> AbsentDim]

\* The sentinel stop() enqueues (None), shaped like a queued event.
NoneItem == [seq |-> 0, event_type |-> "none", resource_type |-> "none",
             resource_id |-> "none"]

VARIABLES
    env,            \* what the callers of this run may pass (fixed by Init)
    subscriptions,  \* EventBus._subscriptions: id -> [handler, filter]
    nextSub,        \* the next uuid4 (ids are never reused)
    isRunning,      \* EventBus._is_running
    eventQueue,     \* EventBus._event_queue
    loops,          \* every dispatch task created; the last is _dispatch_task
    handlerTasks,   \* the _invoke_handler tasks not yet finished
    stopper,        \* the stop() call in flight, if any
    lastRet,        \* what the last API call returned or raised
    published,      \* history: number of events publish() accepted
    received,       \* history: per subscription, the events its handler got
    history,        \* history: per accepted event, the table at its dequeue, its end
                    \* the running period it was accepted in (the number
                    \* of start() calls that had set the flag) and the
                    \* subscriptions there were when it was accepted
    failed,         \* history: the last event a handler raised on (0: none)
    unsubAt,        \* history: per subscription, `published` when
                    \* unsubscribe() returned True for it (-1: never)
    svc,            \* EventService, EventProducer and EventClient fields and
                    \* the position of the processing task and of the
                    \* stop_event_stream() call in flight
    stream,         \* the messages the bridge has sent so far
    transformed,    \* the last message given to transform() and its result
    derived,        \* history: the events transform() returned, in order
    cache,          \* StateManager: _lights, _grouped_lights, _rooms, _scenes
                    \* and _last_update
    cacheCall,      \* history: the last call made on the StateManager
    written,        \* history: the (type, id) given to update_from_rest
                    \* and not deleted or cleared since
    held,           \* the value a caller got from a read accessor and keeps
    sse,            \* EventProducer.get_event_stream: the frames listen()
                    \* gave it and the messages it yielded
    conn            \* EventClient.listen on one connection: the lines it
                    \* has read, current_message and the frames it yielded

busVars == <<subscriptions, nextSub, isRunning, eventQueue, loops,
             handlerTasks, stopper>>
ghostVars == <<published, received, history, failed, unsubAt>>
svcVars == <<svc, stream, transformed, derived>>
unitVars == <<cache, cacheCall, written, held, sse, conn>>
vars == <<env, busVars, lastRet, ghostVars, svcVars, unitVars>>

\* ---------------------------------------------------------------- helpers
SubIds == 1..env.maxSubs

\* The history variables are kept only in the runs whose claims read them
\* (env.trace); they never influence the program's variables.
NoRet == [op |-> "none", arg |-> 0, val |-> "None"]
Observed(op, arg, val) == IF "ret" \in env.trace
                          THEN [op |-> op, arg |-> arg, val |-> val]
                          ELSE NoRet
RemovedAt(sid) == IF "unsub" \in env.trace
                  THEN [unsubAt EXCEPT ![sid] = published]
                  ELSE unsubAt
FailedAfter(seq) == IF "failed" \in env.trace THEN seq ELSE failed
NotSeen == [seen |-> FALSE, subs |-> <<>>]
TableSeen == IF "table" \in env.trace
             THEN [seen |-> TRUE, subs |-> subscriptions]
             ELSE NotSeen
SubsBefore == IF "table" \in env.trace THEN DOMAIN subscriptions ELSE {}
DerivedWith(events) == IF "derived" \in env.trace
                       THEN derived \o events
                       ELSE derived

\* The handler tasks that have suspended and not yet finished.
Suspended == Cardinality({h \in handlerTasks : h.st = "suspended"})

\* asyncio.Queue.put on the unbounded queue: append, never suspends.
Enqueue(q, item) == Append(q, item)

\* Truthiness of an Optional[List]: None and [] are both falsy.
Truthy(dim) == dim.present /\ dim.vals # {}

\* Fault variant of _matches_filter: a dimension is tested with `is not None`,
\* so an empty list lets nothing through.
MatchesFilterNotNone(event, event_filter) ==
    IF event_filter.none THEN TRUE
    ELSE IF event_filter.event_types.present
            /\ event.event_type \notin event_filter.event_types.vals THEN FALSE
    ELSE IF event_filter.resource_types.present
            /\ event.resource_type \notin event_filter.resource_types.vals THEN FALSE
    ELSE IF event_filter.resource_ids.present
            /\ event.resource_id \notin event_filter.resource_ids.vals THEN FALSE
    ELSE TRUE

MatchesFilter(event, event_filter) ==
    IF event_filter.none THEN TRUE
    ELSE IF Truthy(event_filter.event_types)
            /\ event.event_type \notin event_filter.event_types.vals THEN FALSE
    ELSE IF Truthy(event_filter.resource_types)
            /\ event.resource_type \notin event_filter.resource_types.vals THEN FALSE
    ELSE IF Truthy(event_filter.resource_ids)
            /\ event.resource_id \notin event_filter.resource_ids.vals THEN FALSE
    ELSE TRUE

\* Fault variant of the for loop: it stops at the first matching entry.
MatchingFirstOnly(l, event) ==
    LET ms == {t \in DOMAIN subscriptions :
                 MatchesFilter(event, subscriptions[t].filter)}
    IN {[loop |-> l, sid |-> s, handler |-> subscriptions[s].handler,
         seq |-> event.seq, st |-> "pending"] :
           s \in {t \in ms : \A u \in ms : t <= u}}

\* _dispatch_event's for loop: one _invoke_handler task per matching entry
\* of the table as it is now.
MatchingTasks(l, event) ==
    {[loop |-> l, sid |-> s, handler |-> subscriptions[s].handler,
      seq |-> event.seq, st |-> "pending"] :
        s \in {t \in DOMAIN subscriptions :
                 MatchesFilter(event, subscriptions[t].filter)}}

\* asyncio.gather(*tasks): done when every task of this dispatch is done.
GatherDone(l) == \A h \in handlerTasks : h.loop # l

\* _dispatch_loop from the top of `while self._is_running` (top = TRUE) or
\* from the return of queue.get() (top = FALSE), run until it suspends or
\* exits.  An event no subscription matches is dispatched without suspending
\* (no task, no gather), so the loop goes on in the same run.
RECURSIVE LoopRun(_, _, _, _)
LoopRun(l, q, top, skipped) ==
    IF top /\ ~isRunning THEN
        [st |-> "done", q |-> q, ev |-> NoneItem, hs |-> {}, skipped |-> skipped]
    ELSE IF q = <<>> THEN
        [st |-> "waiting", q |-> q, ev |-> NoneItem, hs |-> {}, skipped |-> skipped]
    ELSE IF Head(q) = NoneItem THEN
        [st |-> "done", q |-> Tail(q), ev |-> NoneItem, hs |-> {}, skipped |-> skipped]
    ELSE IF MatchingTasks(l, Head(q)) = {} THEN
        LoopRun(l, Tail(q), TRUE, skipped \cup {Head(q).seq})
    ELSE
        [st |-> "dispatching", q |-> Tail(q), ev |-> Head(q),
         hs |-> MatchingTasks(l, Head(q)), skipped |-> skipped]

\* History kept when a run of the loop dequeues events.
HistoryAfterRun(r) ==
    [n \in DOMAIN history |->
        IF n \in r.finished
        THEN [history[n] EXCEPT !.done = TRUE]
        ELSE IF n \in r.skipped
        THEN [history[n] EXCEPT !.done = TRUE, !.table = TableSeen]
        ELSE IF n = r.ev.seq
        THEN [history[n] EXCEPT !.table = TableSeen]
        ELSE history[n]]

ApplyRun(l, r) ==
    /\ loops' = [loops EXCEPT ![l] = [st |-> r.st, ev |-> r.ev]]
    /\ eventQueue' = r.q
    /\ handlerTasks' = handlerTasks \cup r.hs
    /\ history' = HistoryAfterRun(r)
    /\ UNCHANGED <<env, unitVars, subscriptions, nextSub, isRunning, stopper, lastRet,
                   published, received, failed, unsubAt>>

\* ------------------------------------------------------------ EventBus API
\* EventBus.start, entered as `op`.
\* Fault variant of start(): no test of _is_running.
StartUnchecked(op, ret) ==
    /\ Len(loops) < env.maxStarts
    /\ isRunning' = TRUE
    /\ loops' = Append(loops, [st |-> "new", ev |-> NoneItem])
    /\ lastRet' = Observed(op, 0, ret)
    /\ UNCHANGED <<env, unitVars, subscriptions, nextSub, eventQueue, handlerTasks,
                   stopper, ghostVars>>

\* `ret` is what the caller named `op` gives back when start() has returned.
StartGiving(op, ret) ==
    IF isRunning
    THEN /\ lastRet' = Observed(op, 0, "RuntimeError")
         /\ UNCHANGED <<env, unitVars, busVars, ghostVars>>
    ELSE /\ Len(loops) < env.maxStarts
         /\ isRunning' = TRUE
         /\ loops' = Append(loops, [st |-> "new", ev |-> NoneItem])
         /\ lastRet' = Observed(op, 0, ret)
         /\ UNCHANGED <<env, unitVars, subscriptions, nextSub, eventQueue, handlerTasks,
                        stopper, ghostVars>>

StartAs(op) == StartGiving(op, "None")

Start == StartAs("start")

\* Fault variant of publish(): no test of _is_running.
PublishUnchecked(shape) ==
    /\ published < env.maxPublish
    /\ LET n == published + 1
           ev == [seq |-> n, event_type |-> shape.event_type,
                  resource_type |-> shape.resource_type,
                  resource_id |-> shape.resource_id]
       IN /\ eventQueue' = Enqueue(eventQueue, ev)
          /\ published' = n
          /\ history' = history @@
               (n :> [ev |-> ev, table |-> NotSeen, done |-> FALSE,
                      period |-> Len(loops), before |-> SubsBefore])
    /\ lastRet' = Observed("publish", 0, "None")
    /\ UNCHANGED <<env, unitVars, subscriptions, nextSub, isRunning, loops,
                   handlerTasks, stopper, received, failed, unsubAt>>

\* Fault variant of publish(): the put waits until no handler task is left.
PublishWaits(shape) ==
    IF ~isRunning
    THEN /\ lastRet' = Observed("publish", 0, "RuntimeError")
         /\ UNCHANGED <<env, unitVars, busVars, ghostVars>>
    ELSE /\ published < env.maxPublish
         /\ handlerTasks = {}
         /\ LET n == published + 1
                ev == [seq |-> n, event_type |-> shape.event_type,
                       resource_type |-> shape.resource_type,
                       resource_id |-> shape.resource_id]
            IN /\ eventQueue' = Enqueue(eventQueue, ev)
               /\ published' = n
               /\ history' = history @@
                    (n :> [ev |-> ev, table |-> NotSeen, done |-> FALSE,
                      period |-> Len(loops), before |-> SubsBefore])
         /\ lastRet' = Observed("publish", 0, "None")
         /\ UNCHANGED <<env, unitVars, subscriptions, nextSub, isRunning, loops,
                        handlerTasks, stopper, received, failed, unsubAt>>

\* EventBus.publish.  An accepted call is observed with the number of
\* handler tasks that were suspended when it was made.
Publish(shape) ==
    IF ~isRunning
    THEN /\ lastRet' = Observed("publish", 0, "RuntimeError")
         /\ UNCHANGED <<env, unitVars, busVars, ghostVars>>
    ELSE /\ published < env.maxPublish
         /\ LET n == published + 1
                ev == [seq |-> n, event_type |-> shape.event_type,
                       resource_type |-> shape.resource_type,
                       resource_id |-> shape.resource_id]
            IN /\ eventQueue' = Enqueue(eventQueue, ev)
               /\ published' = n
               /\ history' = history @@
                    (n :> [ev |-> ev, table |-> NotSeen, done |-> FALSE,
                      period |-> Len(loops), before |-> SubsBefore])
         /\ lastRet' = Observed("publish", Suspended, "None")
         /\ UNCHANGED <<env, unitVars, subscriptions, nextSub, isRunning, loops,
                        handlerTasks, stopper, received, failed, unsubAt>>

\* EventBus.subscribe
Subscribe(handler, event_filter) ==
    IF handler = "invalid"
    THEN /\ lastRet' = Observed("subscribe", 0, "ValueError")
         /\ UNCHANGED <<env, unitVars, busVars, ghostVars>>
    ELSE /\ nextSub <= env.maxSubs
         /\ subscriptions' = subscriptions @@
                (nextSub :> [handler |-> handler, filter |-> event_filter])
         /\ nextSub' = nextSub + 1
         /\ lastRet' = Observed("subscribe", nextSub, "Subscription")
         /\ UNCHANGED <<env, unitVars, isRunning, eventQueue, loops, handlerTasks,
                        stopper, ghostVars>>

\* Fault variant of the removal: the entry stays in the table.
WithoutNothing(table, sid) == table

\* The table without one entry (del self._subscriptions[subscription_id]).
Without(table, sid) == [s \in DOMAIN table \ {sid} |-> table[s]]

\* Fault variant of unsubscribe: no membership test, it always reports True.
UnsubscribeUnchecked(op, sid) ==
    /\ subscriptions' = Without(subscriptions, sid)
    /\ lastRet' = Observed(op, sid, "True")
    /\ unsubAt' = RemovedAt(sid)
    /\ UNCHANGED <<env, unitVars, nextSub, isRunning, eventQueue, loops,
                   handlerTasks, stopper, published, received, history,
                   failed>>

\* EventBus.unsubscribe, entered as `op`.
UnsubscribeAs(op, sid) ==
    IF sid \in DOMAIN subscriptions
    THEN /\ subscriptions' = Without(subscriptions, sid)
         /\ lastRet' = Observed(op, sid, "True")
         /\ unsubAt' = RemovedAt(sid)
         /\ UNCHANGED <<env, unitVars, nextSub, isRunning, eventQueue, loops,
                        handlerTasks, stopper, published, received, history,
                        failed>>
    ELSE /\ lastRet' = Observed(op, sid, "False")
         /\ UNCHANGED <<env, unitVars, busVars, ghostVars>>

Unsubscribe(sid) == UnsubscribeAs("unsubscribe", sid)

\* EventService.unsubscribe_from_events: `result = await
\* self._bus.unsubscribe(subscription_id)`, logged and returned.
UnsubscribeFromEvents(sid) == UnsubscribeAs("unsubscribe_from_events", sid)


\* ------------------------------------------------------- the dispatch task
\* A dispatch task runs: its first run (from the top of the loop), or its
\* resumption when queue.get() has an item for it.
LoopStep(l) ==
    /\ \/ /\ loops[l].st = "new"
          /\ ApplyRun(l, LoopRun(l, eventQueue, TRUE, {}) @@ [finished |-> {}])
       \/ /\ loops[l].st = "waiting"
          /\ eventQueue # <<>>
          /\ ApplyRun(l, LoopRun(l, eventQueue, FALSE, {}) @@ [finished |-> {}])

\* Fault variant of _invoke_handler: the exception is not caught and ends
\* the dispatch task that ran the handler.
HandlerRaisedEndsLoop(l, lps) == [lps EXCEPT ![l].st = "done"]

\* _invoke_handler's try/except: what a handler's exception does to the
\* dispatch tasks.  It is caught and logged; nothing changes.
HandlerRaised(l, lps) == lps

TasksOf(l) == {h \in handlerTasks : h.loop = l}

\* Fault variant of _invoke_handler: the handler is called only if its
\* subscription is still in the table when its task runs.
HandlersStartIfSubscribed(l, fail, susp) ==
    LET hs == TasksOf(l)
        sids == {h.sid : h \in hs}
        seq == loops[l].ev.seq
    IN /\ loops[l].st = "dispatching"
       /\ hs # {}
       /\ \A h \in hs : h.st = "pending"
       /\ \A h \in handlerTasks : h.st = "pending" => seq <= h.seq
       /\ fail \subseteq (IF env.raising THEN sids ELSE {})
       /\ susp \subseteq {h.sid : h \in {g \in hs : g.handler = "async"}} \ fail
       /\ received' = [s \in DOMAIN received |->
                          IF s \in sids \cap DOMAIN subscriptions
                          THEN Append(received[s], seq)
                          ELSE received[s]]
       /\ failed' = IF fail = {} THEN failed ELSE FailedAfter(seq)
       /\ handlerTasks' = (handlerTasks \ hs) \cup
                          {[h EXCEPT !.st = "suspended"] :
                              h \in {g \in hs : g.sid \in susp}}
       /\ loops' = IF fail = {} THEN loops ELSE HandlerRaised(l, loops)
       /\ UNCHANGED <<env, unitVars, subscriptions, nextSub, isRunning, eventQueue,
                      stopper, lastRet, published, history, unsubAt>>

\* The handler tasks of one dispatch run, back to back, each up to its first
\* suspension: a sync handler returns or raises, an async one may also
\* suspend.  `fail` raise, `susp` suspend, the others return.  The event
\* loop starts tasks in the order they were created, so the tasks of an
\* earlier dequeue (a smaller seq) start first.
HandlersStart(l, fail, susp) ==
    LET hs == TasksOf(l)
        sids == {h.sid : h \in hs}
        seq == loops[l].ev.seq
    IN /\ loops[l].st = "dispatching"
       /\ hs # {}
       /\ \A h \in hs : h.st = "pending"
       /\ \A h \in handlerTasks : h.st = "pending" => seq <= h.seq
       /\ fail \subseteq (IF env.raising THEN sids ELSE {})
       /\ susp \subseteq {h.sid : h \in {g \in hs : g.handler = "async"}} \ fail
       /\ received' = [s \in DOMAIN received |->
                          IF s \in sids THEN Append(received[s], seq)
                          ELSE received[s]]
       /\ failed' = IF fail = {} THEN failed ELSE FailedAfter(seq)
       /\ handlerTasks' = (handlerTasks \ hs) \cup
                          {[h EXCEPT !.st = "suspended"] :
                              h \in {g \in hs : g.sid \in susp}}
       /\ loops' = IF fail = {} THEN loops ELSE HandlerRaised(l, loops)
       /\ UNCHANGED <<env, unitVars, subscriptions, nextSub, isRunning, eventQueue,
                      stopper, lastRet, published, history, unsubAt>>

\* A suspended async handler returns (ok) or raises.
HandlerFinish(h, ok) ==
    /\ h \in handlerTasks
    /\ h.st = "suspended"
    /\ ok \/ env.raising
    /\ handlerTasks' = handlerTasks \ {h}
    /\ failed' = IF ok THEN failed ELSE FailedAfter(h.seq)
    /\ loops' = IF ok THEN loops ELSE HandlerRaised(h.loop, loops)
    /\ UNCHANGED <<env, unitVars, subscriptions, nextSub, isRunning, eventQueue,
                   stopper, lastRet, published, received, history, unsubAt>>

\* gather() has returned: the loop goes back to `while self._is_running`.
LoopResume(l) ==
    /\ loops[l].st = "dispatching"
    /\ \A h \in TasksOf(l) : h.st # "pending"
    /\ GatherDone(l)
    /\ ApplyRun(l, LoopRun(l, eventQueue, TRUE, {})
                      @@ [finished |-> {loops[l].ev.seq}])

\* ---------------------------------------------------------- EventBus.stop
IdleStopper == [pc |-> "idle", task |-> 0]
Finished(l) == loops[l].st \in {"done", "cancelled"}

\* stop(), entered as `op`, up to its wait_for(self._dispatch_task, 5.0).
StopCallAs(op) ==
    /\ stopper.pc = "idle"
    /\ IF ~isRunning
       THEN /\ lastRet' = Observed(op, 0, "None")
            /\ UNCHANGED <<env, unitVars, busVars, ghostVars>>
       ELSE /\ isRunning' = FALSE
            /\ eventQueue' = Enqueue(eventQueue, NoneItem)
            /\ stopper' = [pc |-> "wait_for", task |-> Len(loops)]
            /\ UNCHANGED <<env, unitVars, subscriptions, nextSub, loops, handlerTasks,
                           lastRet, ghostVars>>

StopCall == StopCallAs("stop")

\* The awaited dispatch task has exited: stop() clears the table and returns.
StopReturnAs(op) ==
    /\ stopper.pc = "wait_for"
    /\ Finished(stopper.task)
    /\ subscriptions' = <<>>
    /\ stopper' = IdleStopper
    /\ lastRet' = Observed(op, 0, "None")
    /\ UNCHANGED <<env, unitVars, nextSub, isRunning, eventQueue, loops, handlerTasks,
                   ghostVars>>

StopReturn == StopReturnAs("stop")

\* A dispatch task that cannot exit within the timeout: it waits on an
\* empty queue, or a handler of its event stays suspended.
Stuck(l) ==
    \/ loops[l].st = "waiting" /\ eventQueue = <<>>
    \/ loops[l].st = "dispatching" /\ \E h \in TasksOf(l) : h.st = "suspended"

\* Task.cancel() on the dispatch tasks in `ls`: they and their handler tasks
\* end cancelled (a finished task is left as it is).
Cancelled(ls) ==
    [l \in DOMAIN loops |->
        IF l \in ls /\ ~Finished(l) THEN [loops[l] EXCEPT !.st = "cancelled"]
        ELSE loops[l]]

\* The timeout of wait_for: the awaited task is cancelled, then stop()
\* cancels and awaits self._dispatch_task, clears the table and returns.
StopTimeoutAs(op) ==
    /\ stopper.pc = "wait_for"
    /\ Stuck(stopper.task)
    /\ loops' = Cancelled({stopper.task, Len(loops)})
    /\ handlerTasks' = {h \in handlerTasks :
                           h.loop \notin {stopper.task, Len(loops)}}
    /\ subscriptions' = <<>>
    /\ stopper' = IdleStopper
    /\ lastRet' = Observed(op, 0, "None")
    /\ UNCHANGED <<env, unitVars, nextSub, isRunning, eventQueue, ghostVars>>

StopTimeout == StopTimeoutAs("stop")

\* ------------------------------------------------------- EventTransformer
\* EventDataDTO: a resource change (owner: None or a ResourceIdentifierDTO;
\* "malformed" stands for an object that is not one, which only an
\* unvalidated message can hold).
ChangeShapes ==
    {[id |-> "r1", type |-> "light", owner |-> "none"],
     [id |-> "r2", type |-> "motion", owner |-> "ref"]}
\* EventDTO without its data: id, type, creationtime.
EnvelopeHeads ==
    {[id |-> "e1", type |-> "update", creationtime |-> 1],
     [id |-> "e2", type |-> "delete", creationtime |-> 2]}
SeqsUpTo(S, n) == UNION {[1..k -> S] : k \in 0..n}
Envelopes ==
    {[id |-> h.id, type |-> h.type, creationtime |-> h.creationtime,
      data |-> d] : h \in EnvelopeHeads, d \in SeqsUpTo(ChangeShapes, MaxChanges)}
\* EventStreamMessageDTO.data of the validated messages.
Messages == SeqsUpTo(Envelopes, MaxEnvelopes)

\* InternalEventDTO.model_construct(...) of lines 43-60.
InternalEvent(event, event_data) ==
    [event_id |-> event.id, event_type |-> event.type,
     resource_type |-> event_data.type, resource_id |-> event_data.id,
     timestamp |-> event.creationtime, data |-> event_data]

\* What an unvalidated message (built with model_construct, or changed
\* after validation) can hold besides: a change whose owner is not a model,
\* and an object that is no EventDataDTO at all and has none of its
\* attributes (a dict).
RawChangeShapes ==
    ChangeShapes \cup
    {[id |-> "r3", type |-> "light", owner |-> "malformed"],
     [id |-> "missing", type |-> "missing", owner |-> "missing"]}
RawEnvelopes ==
    {[id |-> h.id, type |-> h.type, creationtime |-> h.creationtime,
      data |-> d] : h \in EnvelopeHeads,
                    d \in SeqsUpTo(RawChangeShapes, RawChanges)}
RawMessages == SeqsUpTo(RawEnvelopes, RawEnvelopeCount)

\* The inner try: reading event_data.type raises on an object without the
\* attribute, and building the metadata calls event_data.owner.model_dump(),
\* which raises on what is not a model; model_construct validates nothing.
Constructs(event_data) == event_data.owner \notin {"malformed", "missing"}

\* The inner except formats event_data.id into its log line before its
\* `continue`: on an object without the attribute this raises inside the
\* handler, out of the inner try and into the outer except.
HandlerRaises(event_data) ==
    ~Constructs(event_data) /\ event_data.id = "missing"

\* The outer except is reached while the changes of this envelope are gone
\* through: the transformation ends there.
EndsEarly(changes) == \E i \in DOMAIN changes : HandlerRaises(changes[i])

\* Fault variant of the inner loop: only the first change of an envelope
\* gives an event.
FirstChangeOnly(event, changes) ==
    IF changes = <<>> THEN <<>>
    ELSE IF Constructs(Head(changes))
         THEN <<InternalEvent(event, Head(changes))>>
         ELSE <<>>

\* `for event_data in event.data`, with the inner except's `continue`.
RECURSIVE FromChanges(_, _)
FromChanges(event, changes) ==
    IF changes = <<>> THEN <<>>
    ELSE IF HandlerRaises(Head(changes)) THEN <<>>
    ELSE (IF Constructs(Head(changes))
          THEN <<InternalEvent(event, Head(changes))>>
          ELSE <<>>) \o FromChanges(event, Tail(changes))

\* `for event in raw_message.data`.
RECURSIVE FromEnvelopes(_)
FromEnvelopes(envelopes) ==
    IF envelopes = <<>> THEN <<>>
    ELSE FromChanges(Head(envelopes), Head(envelopes).data)
            \o (IF EndsEarly(Head(envelopes).data) THEN <<>>
                ELSE FromEnvelopes(Tail(envelopes)))

\* EventTransformer.transform
Transform(raw_message) == FromEnvelopes(raw_message)

\* A caller passes a message to transform() and keeps the result.
TransformCall(raw_message) ==
    /\ ~transformed.done
    /\ transformed' = [msg |-> raw_message, out |-> Transform(raw_message),
                       done |-> TRUE]
    /\ UNCHANGED <<env, unitVars, busVars, lastRet, ghostVars, svc, stream, derived>>

\* ------------------------------- EventService, EventProducer, EventClient
MaxRetries == 3     \* EventClient max_retries, as EventClient is built

\* EventClient.is_connected
IsConnected == svc.connected /\ svc.hasClient
\* EventProducer.is_running
ProducerIsRunning == svc.prodRunning /\ IsConnected
\* asyncio.Task.done() of the processing task
TaskDone == svc.task \in {"done", "failed", "cancelled"}
\* EventService.is_streaming
IsStreaming == svc.taskRef /\ ~TaskDone /\ ProducerIsRunning

\* EventProducer.start with EventClient.connect: neither suspends nor fails.
ProducerStarted(s) ==
    IF s.prodRunning THEN s
    ELSE IF s.connected THEN [s EXCEPT !.prodRunning = TRUE]
    ELSE [s EXCEPT !.endpoint = TRUE, !.connected = TRUE, !.prodRunning = TRUE]

\* Fault variant of start_event_stream: no test of is_streaming().
StartEventStreamUnchecked(s, op, ret) ==
    /\ StartGiving(op, ret)
    /\ svc' = IF isRunning
              THEN ProducerStarted(s)
              ELSE [ProducerStarted(s) EXCEPT
                       !.shutdown = FALSE, !.taskRef = TRUE,
                       !.task = "new", !.cancelReq = FALSE,
                       !.retry = 0, !.empty = 0]
    /\ UNCHANGED <<stream, transformed, derived>>

\* EventService.start_event_stream: no await in it suspends.  bus.start()
\* raises on a running bus, after producer.start() has had its effect.
\* It is entered as `op` from service state s, and `ret` is what `op` gives
\* back when it has returned: observed with 1 when the call found the
\* service streaming, else with 0.
StartEventStreamFrom(s, op, ret) ==
    /\ IF IsStreaming
       THEN /\ lastRet' = Observed(op, 1, ret)
            /\ svc' = s
            /\ UNCHANGED <<env, unitVars, busVars, ghostVars, stream, transformed,
                           derived>>
       ELSE /\ StartGiving(op, ret)
            /\ svc' = IF isRunning
                      THEN ProducerStarted(s)
                      ELSE [ProducerStarted(s) EXCEPT
                               !.shutdown = FALSE, !.taskRef = TRUE,
                               !.task = "new", !.cancelReq = FALSE,
                               !.retry = 0, !.empty = 0]
            /\ UNCHANGED <<stream, transformed, derived>>

StartEventStream == StartEventStreamFrom(svc, "start_event_stream", "None")

\* EventService.stop_event_stream up to `await self._processing_task`.
\* Fault variant of stop_event_stream: it does not test is_streaming().
StopEventStreamUnchecked ==
    /\ svc.stopPc = "idle"
    /\ svc' = [svc EXCEPT !.shutdown = TRUE,
                          !.cancelReq = svc.taskRef /\ ~TaskDone,
                          !.stopPc = "await_task"]
    /\ UNCHANGED <<env, unitVars, busVars, lastRet, ghostVars, stream, transformed,
                   derived>>

\* The call is observed with 1 when the call observed before it was a
\* stop_event_stream() too, else with 0.
StopEventStream ==
    /\ svc.stopPc = "idle"
    /\ IF ~IsStreaming
       THEN /\ lastRet' = Observed("stop_event_stream",
                                   IF lastRet.op = "stop_event_stream"
                                   THEN 1 ELSE 0,
                                   "None")
            /\ UNCHANGED <<env, unitVars, busVars, ghostVars, svcVars>>
       ELSE /\ svc' = [svc EXCEPT !.shutdown = TRUE, !.cancelReq = TRUE,
                                  !.stopPc = "await_task"]
            /\ UNCHANGED <<env, unitVars, busVars, lastRet, ghostVars, stream,
                           transformed, derived>>

\* Where the caller of stop_event_stream goes on when it has returned: back
\* to its own caller, or, in restart_streaming, on to start_streaming.
AfterStop == IF svc.restart = "no" THEN "idle" ELSE "start_streaming"

\* bus.stop() as the last statement of stop_event_stream, from service
\* state s: it returns at once on a stopped bus, else it waits in wait_for.
BusStopFrom(s) ==
    /\ StopCallAs("stop_event_stream")
    /\ svc' = [s EXCEPT !.stopPc = IF isRunning THEN "bus_stop"
                                   ELSE AfterStop]
    /\ UNCHANGED <<stream, transformed, derived>>

\* EventClient.disconnect after `await self._client.aclose()`, and
\* EventProducer.stop's finally.
Disconnected(s) ==
    [s EXCEPT !.hasClient = FALSE, !.connected = FALSE, !.endpoint = FALSE,
              !.prodRunning = FALSE]

\* Fault variant of stop_event_stream: the cancelled processing task is not
\* awaited before producer.stop().
StopWithoutAwait ==
    /\ svc.stopPc = "await_task"
    /\ LET s == [svc EXCEPT !.taskRef = FALSE]
       IN IF s.prodRunning /\ s.connected /\ s.hasClient
          THEN /\ svc' = [s EXCEPT !.stopPc = "aclose"]
               /\ UNCHANGED <<env, unitVars, busVars, lastRet, ghostVars, stream,
                              transformed, derived>>
          ELSE BusStopFrom([s EXCEPT
                  !.connected = IF s.prodRunning THEN FALSE ELSE @,
                  !.endpoint = IF s.prodRunning /\ s.connected THEN FALSE ELSE @,
                  !.prodRunning = FALSE])

\* The processing task is done: stop_event_stream drops it and goes on with
\* producer.stop(), which suspends in aclose() when there is a connected
\* client to close.
StopAfterTask ==
    /\ svc.stopPc = "await_task"
    /\ TaskDone
    /\ LET s == [svc EXCEPT !.taskRef = FALSE]
       IN IF s.prodRunning /\ s.connected /\ s.hasClient
          THEN /\ svc' = [s EXCEPT !.stopPc = "aclose"]
               /\ UNCHANGED <<env, unitVars, busVars, lastRet, ghostVars, stream,
                              transformed, derived>>
          ELSE BusStopFrom([s EXCEPT
                  !.connected = IF s.prodRunning THEN FALSE ELSE @,
                  !.endpoint = IF s.prodRunning /\ s.connected THEN FALSE ELSE @,
                  !.prodRunning = FALSE])

\* aclose() has returned: the client is dropped, the producer stopped, and
\* bus.stop() is called.
StopAfterAclose ==
    /\ svc.stopPc = "aclose"
    /\ BusStopFrom(Disconnected(svc))

\* bus.stop() returns in stop_event_stream, which returns.
BusStopReturns ==
    /\ svc.stopPc = "bus_stop"
    /\ \/ StopReturnAs("stop_event_stream")
       \/ StopTimeoutAs("stop_event_stream")
    /\ svc' = [svc EXCEPT !.stopPc = AfterStop]
    /\ UNCHANGED <<stream, transformed, derived>>

\* The processing task changes place; nothing else changes.
TaskGoes(s) ==
    /\ svc' = s
    /\ UNCHANGED <<env, unitVars, busVars, lastRet, ghostVars, stream, transformed,
                   derived>>

\* Task.cancel() reaches the processing task at its next step.  listen()
\* swallows the CancelledError raised inside its try (`break`), so the task
\* ends normally; raised in the retry sleep, or before the first step, it
\* ends the task cancelled.
TaskCancelled ==
    /\ svc.cancelReq
    /\ svc.task \in {"new", "connecting", "streaming", "sleeping"}
    /\ TaskGoes([svc EXCEPT
           !.cancelReq = FALSE,
           !.task = IF svc.task \in {"connecting", "streaming"}
                    THEN "done" ELSE "cancelled"])

\* listen() at `async with self._client.stream("GET", ...)`: one more
\* attempt.  svc.empty counts the attempts since the last frame (history,
\* kept up to one past MaxRetries).
Attempt(s) ==
    [s EXCEPT !.task = "connecting",
              !.empty = IF "attempts" \in env.trace /\ s.empty <= MaxRetries
                        THEN s.empty + 1 ELSE s.empty]

\* The first step of _process_events: get_event_stream() and listen() raise
\* RuntimeError when the producer or the client is not ready (the fatal
\* branch of _process_events), else listen() opens the stream.
TaskBegin ==
    /\ ~svc.cancelReq
    /\ svc.task = "new"
    /\ TaskGoes(IF svc.prodRunning /\ svc.connected /\ svc.hasClient
                   /\ svc.endpoint
                THEN Attempt(svc) ELSE [svc EXCEPT !.task = "failed"])

\* Fault variant of listen()'s except branches: the bound is tested with >.
RetryOrFailLate(s) ==
    [s EXCEPT !.retry = s.retry + 1,
              !.task = IF s.retry + 1 > MaxRetries THEN "failed"
                       ELSE "sleeping"]

\* listen()'s except branches: one more retry, or ConnectionError, which
\* get_event_stream re-raises and _process_events logs as fatal.
RetryOrFail(s) ==
    [s EXCEPT !.retry = s.retry + 1,
              !.task = IF s.retry + 1 >= MaxRetries THEN "failed"
                       ELSE "sleeping"]

\* The GET of listen() answers: 200, or anything else.
TaskConnect(ok) ==
    /\ ~svc.cancelReq
    /\ svc.task = "connecting"
    /\ TaskGoes(IF ok THEN [svc EXCEPT !.task = "streaming", !.retry = 0]
                ELSE RetryOrFail(svc))

\* asyncio.sleep(retry_delay) is over: back to `while self._connected`.
TaskWake ==
    /\ ~svc.cancelReq
    /\ svc.task = "sleeping"
    /\ TaskGoes(IF svc.connected THEN Attempt(svc)
                ELSE [svc EXCEPT !.task = "done"])

\* The connection breaks while streaming.
TaskStreamError ==
    /\ ~svc.cancelReq
    /\ svc.task = "streaming"
    /\ TaskGoes(RetryOrFail(svc))

\* The bridge ends the response: listen() opens the stream again.
TaskStreamEnds ==
    /\ ~svc.cancelReq
    /\ svc.task = "streaming"
    /\ TaskGoes(IF svc.connected THEN Attempt(svc)
                ELSE [svc EXCEPT !.task = "done"])

\* The event publish() queues for an internal event, numbered n.
BusEvent(e, n) ==
    [seq |-> n, event_type |-> e.event_type,
     resource_type |-> e.resource_type, resource_id |-> e.resource_id]

\* Fault variant of the publishing loop: it stops after the first event.
PublishFirstOnly(events) ==
    LET k == IF events = <<>> THEN 0 ELSE 1
    IN /\ eventQueue' = eventQueue \o
             [i \in 1..k |-> BusEvent(events[i], published + i)]
       /\ published' = published + k
       /\ history' = history \o
             [i \in 1..k |-> [ev |-> BusEvent(events[i], published + i),
                               table |-> NotSeen, done |-> FALSE,
                               period |-> Len(loops), before |-> SubsBefore]]

\* `for event in internal_events: await self._bus.publish(event)` on a
\* running bus.
PublishEach(events) ==
    LET k == Len(events)
    IN /\ eventQueue' = eventQueue \o
             [i \in 1..k |-> BusEvent(events[i], published + i)]
       /\ published' = published + k
       /\ history' = history \o
             [i \in 1..k |-> [ev |-> BusEvent(events[i], published + i),
                               table |-> NotSeen, done |-> FALSE,
                               period |-> Len(loops), before |-> SubsBefore]]

\* Fault variant of _process_events: no try around the transform and the
\* publishing of one message, so publish() raising on a stopped bus ends
\* the task on its fatal branch.
TaskMessageUncaught(m) ==
    /\ ~svc.cancelReq
    /\ svc.task = "streaming"
    /\ stream < env.maxMessages
    /\ stream' = stream + 1
    /\ IF svc.shutdown
       THEN /\ svc' = [svc EXCEPT !.task = "done", !.empty = 0]
            /\ UNCHANGED <<eventQueue, published, history, derived>>
       ELSE /\ derived' = DerivedWith(Transform(m))
            /\ IF isRunning
               THEN /\ PublishEach(Transform(m))
                    /\ svc' = [svc EXCEPT !.empty = 0]
               ELSE /\ UNCHANGED <<eventQueue, published, history>>
                    /\ svc' = [svc EXCEPT !.empty = 0,
                                          !.task = IF Transform(m) = <<>>
                                                   THEN @ ELSE "failed"]
    /\ UNCHANGED <<env, unitVars, subscriptions, nextSub, isRunning, loops,
                   handlerTasks, stopper, lastRet, received, failed, unsubAt,
                   transformed>>

\* A message arrives and is yielded up to _process_events, which leaves
\* its loop if shutdown is set, else transforms it and publishes the events
\* (publish() raises on a stopped bus; the inner except logs it).
TaskMessage(m) ==
    /\ ~svc.cancelReq
    /\ svc.task = "streaming"
    /\ stream < env.maxMessages
    /\ stream' = stream + 1
    /\ IF svc.shutdown
       THEN /\ svc' = [svc EXCEPT !.task = "done", !.empty = 0]
            /\ UNCHANGED <<eventQueue, published, history, derived>>
       ELSE /\ svc' = [svc EXCEPT !.empty = 0]
            /\ derived' = DerivedWith(Transform(m))
            /\ IF isRunning
               THEN PublishEach(Transform(m))
               ELSE UNCHANGED <<eventQueue, published, history>>
    /\ UNCHANGED <<env, unitVars, subscriptions, nextSub, isRunning, loops,
                   handlerTasks, stopper, lastRet, received, failed, unsubAt,
                   transformed>>

\* EventController.restart_streaming up to the first suspension of
\* stop_event_stream (stop_streaming adds nothing to it); svc.restart keeps
\* whether the service was streaming at the call.
RestartStreaming ==
    /\ svc.stopPc = "idle"
    /\ svc' = IF ~IsStreaming
              THEN [svc EXCEPT !.restart = "idle", !.stopPc = "start_streaming"]
              ELSE [svc EXCEPT !.restart = "streaming", !.shutdown = TRUE,
                               !.cancelReq = TRUE, !.stopPc = "await_task"]
    /\ UNCHANGED <<env, unitVars, busVars, lastRet, ghostVars, stream, transformed,
                   derived>>

\* stop_streaming() has returned in restart_streaming: start_streaming()
\* runs without suspending, and restart_streaming returns True unless
\* start_event_stream raised.
RestartStarts ==
    /\ svc.stopPc = "start_streaming"
    /\ StartEventStreamFrom([svc EXCEPT !.stopPc = "idle", !.restart = "no"],
                            "restart_streaming", "True")

\* ----------------------------------------------------------- HueClient
\* subscribe_to_events(handler=self._handle_internal_event,
\* event_filter=None): the table with the new entry.
WithSyncHandler ==
    subscriptions @@ (nextSub :> [handler |-> "sync", filter |-> NoFilter])

\* HueClient.start_event_stream with the state cache enabled:
\* service.start_event_stream(), which returns at once on a streaming
\* service and lets the RuntimeError of bus.start() through, and then, if
\* it returned, one more subscription whose id replaces the one kept.
HueStartEventStream ==
    /\ svc.stopPc = "idle"
    /\ IF IsStreaming
       THEN /\ nextSub <= env.maxSubs
            /\ subscriptions' = WithSyncHandler
            /\ nextSub' = nextSub + 1
            /\ svc' = [svc EXCEPT !.syncSub = nextSub]
            /\ UNCHANGED <<isRunning, loops>>
       ELSE IF isRunning
       THEN /\ svc' = ProducerStarted(svc)
            /\ UNCHANGED <<subscriptions, nextSub, isRunning, loops>>
       ELSE /\ nextSub <= env.maxSubs
            /\ Len(loops) < env.maxStarts
            /\ isRunning' = TRUE
            /\ loops' = Append(loops, [st |-> "new", ev |-> NoneItem])
            /\ subscriptions' = WithSyncHandler
            /\ nextSub' = nextSub + 1
            /\ svc' = [ProducerStarted(svc) EXCEPT
                          !.shutdown = FALSE, !.taskRef = TRUE,
                          !.task = "new", !.cancelReq = FALSE,
                          !.retry = 0, !.empty = 0, !.syncSub = nextSub]
    /\ UNCHANGED <<env, unitVars, eventQueue, handlerTasks, stopper, lastRet,
                   ghostVars, stream, transformed, derived>>

\* HueClient.stop_event_stream up to the first suspension of
\* service.stop_event_stream(): the subscription whose id is kept is
\* removed and the id dropped, then the service is stopped (it returns at
\* once when it is not streaming).
HueStopEventStream ==
    /\ svc.stopPc = "idle"
    /\ subscriptions' = IF svc.syncSub \in DOMAIN subscriptions
                        THEN Without(subscriptions, svc.syncSub)
                        ELSE subscriptions
    /\ svc' = IF ~IsStreaming
              THEN [svc EXCEPT !.syncSub = 0]
              ELSE [svc EXCEPT !.syncSub = 0, !.shutdown = TRUE,
                               !.cancelReq = TRUE, !.stopPc = "await_task"]
    /\ UNCHANGED <<env, unitVars, nextSub, isRunning, eventQueue, loops,
                   handlerTasks, stopper, lastRet, ghostVars, stream,
                   transformed, derived>>

\* EventService.subscribe_to_events
SubscribeToEvents(handler, event_filter) == Subscribe(handler, event_filter)

\* ------------------------------------- EventClient.listen: the framing
\* The lines response.aiter_lines() gives: an empty line, a line of white
\* space, and two lines of text.
Lines == {"", " ", "id: 1", "data: []"}

\* str.strip() on these lines.
Strip(line) == IF line = " " THEN "" ELSE line

\* `not line or line.strip() == ""`
IsBlank(line) == line = "" \/ Strip(line) = ""

\* "\n".join(current_message): the lines hold no line break, so the joined
\* text is kept as the lines it is made of.
Joined(current_message) == current_message

\* A connection that has answered 200: current_message = [].
NoLines == [lines |-> <<>>, current_message |-> <<>>, frames |-> <<>>,
            open |-> TRUE]

\* Fault variant of the loop body: a blank line yields the buffer also when
\* it is empty.
ReadLineYieldsEmpty(line) ==
    /\ conn.open
    /\ Len(conn.lines) < MaxLines
    /\ conn' = IF IsBlank(line)
               THEN [conn EXCEPT
                       !.lines = Append(@, line),
                       !.current_message = <<>>,
                       !.frames = Append(@, Joined(conn.current_message))]
               ELSE [conn EXCEPT !.lines = Append(@, line),
                                 !.current_message = Append(@, line)]
    /\ UNCHANGED <<env, busVars, lastRet, ghostVars, svcVars, cache, cacheCall,
                   written, held, sse>>

\* One round of `async for line in response.aiter_lines()` on a client that
\* is still connected.
ReadLine(line) ==
    /\ conn.open
    /\ Len(conn.lines) < MaxLines
    /\ conn' = IF IsBlank(line)
               THEN IF conn.current_message # <<>>
                    THEN [conn EXCEPT
                            !.lines = Append(@, line),
                            !.current_message = <<>>,
                            !.frames = Append(@, Joined(conn.current_message))]
                    ELSE [conn EXCEPT !.lines = Append(@, line)]
               ELSE [conn EXCEPT !.lines = Append(@, line),
                                 !.current_message = Append(@, line)]
    /\ UNCHANGED <<env, busVars, lastRet, ghostVars, svcVars, cache, cacheCall,
                   written, held, sse>>

\* The lines end (or the loop breaks because disconnect() was called): what
\* is left in current_message is yielded.
LinesEnd ==
    /\ conn.open
    /\ conn' = [conn EXCEPT
                  !.open = FALSE,
                  !.frames = IF conn.current_message # <<>>
                             THEN Append(@, Joined(conn.current_message))
                             ELSE @]
    /\ UNCHANGED <<env, busVars, lastRet, ghostVars, svcVars, cache, cacheCall,
                   written, held, sse>>

\* ----------------------------------------- EventProducer.get_event_stream
\* The lines of a frame, as _parse_sse_message tells them apart: an id
\* line, a data line, or any other line (a comment, an event line).  The
\* text after `data:` is empty, is not JSON, is JSON that is not a list of
\* events, or is the JSON of a list of events `msg`.
IdLine(id) == [key |-> "id", id |-> id, kind |-> "none", msg |-> <<>>]
OtherLine == [key |-> "other", id |-> "none", kind |-> "none", msg |-> <<>>]
DataLine(kind, msg) == [key |-> "data", id |-> "none", kind |-> kind,
                        msg |-> msg]
FrameLines ==
    {IdLine("m1"), IdLine("m2"), OtherLine,
     DataLine("empty", <<>>), DataLine("invalid_json", <<>>),
     DataLine("not_events", <<>>),
     DataLine("events", <<>>),
     DataLine("events",
              << [id |-> "e1", type |-> "update", creationtime |-> 1,
                  data |-> << [id |-> "r1", type |-> "light",
                               owner |-> "none"] >>] >>)}

\* What listen() yields: the lines between two blank lines, at least one.
Frames == [1..1 -> FrameLines] \cup [1..2 -> FrameLines]

\* None, and an EventStreamMessageDTO (without its timestamp).
NoMessage == [some |-> FALSE, id |-> "None", data |-> <<>>]
Message(id, data) == [some |-> TRUE, id |-> id, data |-> data]

\* The last line of a frame with the given key (0: there is none).
LastLine(raw_data, key) ==
    LET at == {i \in DOMAIN raw_data : raw_data[i].key = key}
    IN IF at = {} THEN 0 ELSE CHOOSE i \in at : \A j \in at : j <= i

\* _parse_sse_message: the last id line and the last data line count; no
\* data or an empty one gives None, and so do the JSONDecodeError and the
\* validation error, which it catches.
ParseSseMessage(raw_data) ==
    LET i == LastLine(raw_data, "id")
        d == LastLine(raw_data, "data")
        message_id == IF i = 0 THEN "None" ELSE raw_data[i].id
    IN IF d = 0 THEN NoMessage
       ELSE IF raw_data[d].kind # "events" THEN NoMessage
       ELSE Message(message_id, raw_data[d].msg)

\* get_event_stream before listen() has yielded anything.
NoFrames == [n |-> 0, last |-> <<>>, yielded |-> <<>>, alive |-> TRUE]

\* Fault variant of get_event_stream: a frame that gives no message ends
\* the sequence.
ListenYieldsOrEnds(raw_event) ==
    /\ sse.alive
    /\ sse.n < env.maxFrames
    /\ LET message == ParseSseMessage(raw_event)
       IN sse' = [n |-> sse.n + 1, last |-> raw_event,
                  yielded |-> IF message.some
                              THEN Append(sse.yielded, message)
                              ELSE sse.yielded,
                  alive |-> message.some]
    /\ UNCHANGED <<env, busVars, lastRet, ghostVars, svcVars, cache, cacheCall,
                   written, held, conn>>

\* listen() yields a frame to get_event_stream, which yields the message
\* parsed from it, if there is one, and asks listen() for the next.
ListenYields(raw_event) ==
    /\ sse.alive
    /\ sse.n < env.maxFrames
    /\ LET message == ParseSseMessage(raw_event)
       IN sse' = [n |-> sse.n + 1, last |-> raw_event,
                  yielded |-> IF message.some
                              THEN Append(sse.yielded, message)
                              ELSE sse.yielded,
                  alive |-> TRUE]
    /\ UNCHANGED <<env, busVars, lastRet, ghostVars, svcVars, cache, cacheCall,
                   written, held, conn>>

\* listen() ends or raises: so does get_event_stream.
ListenEnds ==
    /\ sse.alive
    /\ sse' = [sse EXCEPT !.alive = FALSE]
    /\ UNCHANGED <<env, busVars, lastRet, ghostVars, svcVars, cache, cacheCall,
                   written, held, conn>>

\* ------------------------------------------------------------ StateManager
\* The resource types callers pass, the four that have a map of their own,
\* and the event types of an InternalEventDTO.
CacheTypes == {"light", "grouped_light", "room", "scene", "motion"}
CachedTypes == {"light", "grouped_light", "room", "scene"}
CacheIds == {"L1", "L2"}
CacheEventTypes == {"update", "add", "delete", "error"}
EventTimes == {100}

\* The value of an `on` attribute: None, the Dict[str, bool] of a REST
\* snapshot, or the OnDTO of an event payload.
NoOn == [cls |-> "None", on |-> FALSE]
DictOn(b) == [cls |-> "dict", on |-> b]
OnDTO(b) == [cls |-> "event_dto.OnDTO", on |-> b]

\* The value of a `dimming` attribute: None, the DimmingDTO of a light
\* snapshot (brightness and min_dim_level) or the DimmingDTO of an event
\* payload, which has brightness alone.  min_dim_level is the set of values
\* the attribute has: empty when the object has no such attribute.
NoDimming == [cls |-> "None", brightness |-> 0, min_dim_level |-> {}]
LightDimming(b, m) == [cls |-> "light_dto.DimmingDTO", brightness |-> b,
                       min_dim_level |-> {m}]
EventDimming(b) == [cls |-> "event_dto.DimmingDTO", brightness |-> b,
                    min_dim_level |-> {}]

\* The snapshots update_from_rest is given: response DTOs.  attrs are the
\* attributes hasattr() finds among on and dimming; name stands for the
\* rest of the DTO (metadata, colour, children, actions).
Snapshots(t) ==
    IF t = "light"
    THEN {[attrs |-> {"on", "dimming"}, on |-> DictOn(b),
           dimming |-> LightDimming(50, 2), name |-> "light"] : b \in BOOLEAN}
    ELSE IF t = "grouped_light"
    THEN {[attrs |-> {"on", "dimming"}, on |-> NoOn, dimming |-> NoDimming,
           name |-> "grouped_light"]}
    ELSE {[attrs |-> {}, on |-> NoOn, dimming |-> NoDimming, name |-> t]}

\* The events update_from_event is given: data.on and data.dimming are
\* None or carry a value.
CacheEvents == [event_type : CacheEventTypes, resource_type : CacheTypes,
                resource_id : CacheIds, timestamp : EventTimes,
                on : {NoOn, OnDTO(FALSE)},
                dimming : {NoDimming, EventDimming(75)}]

\* StateManager.__init__, without the _initialized flag.
EmptyCache == [lights |-> <<>>, grouped_lights |-> <<>>, rooms |-> <<>>,
               scenes |-> <<>>, last_update |-> <<>>]
NoCall == [op |-> "none", n |-> 0, event_type |-> "none",
           resource_type |-> "none", resource_id |-> "none",
           timestamp |-> 0, on |-> NoOn, dimming |-> NoDimming]

\* What a caller holds: nothing, or the object a read accessor returned
\* for (resource_type, resource_id).  value is what the object holds now;
\* live tells whether the map still holds this very object.
NoSnapshot == [attrs |-> {}, on |-> NoOn, dimming |-> NoDimming,
               name |-> "None"]
NoHeld == [has |-> FALSE, live |-> FALSE, resource_type |-> "none",
           resource_id |-> "none", value |-> NoSnapshot]

\* The dict of a resource type.
MapOf(t) == CASE t = "light" -> "lights"
              [] t = "grouped_light" -> "grouped_lights"
              [] t = "room" -> "rooms"
              [] t = "scene" -> "scenes"

\* d[k] = v and d.pop(k, None) on a dict.
Put(d, k, v) == [x \in DOMAIN d \cup {k} |-> IF x = k THEN v ELSE d[x]]
Pop(d, k) == [x \in DOMAIN d \ {k} |-> d[x]]

\* get_light, get_grouped_light, get_room, get_scene: is there an entry.
Cached(c, t, id) == t \in CachedTypes /\ id \in DOMAIN c[MapOf(t)]

\* update_from_rest: the timestamp is written whatever the type is, under
\* the id alone.
UpdateFromRestOn(c, t, id, data, now) ==
    LET stored == IF t \in CachedTypes
                  THEN [c EXCEPT ![MapOf(t)] = Put(@, id, data)]
                  ELSE c
    IN [stored EXCEPT !.last_update = Put(@, id, now)]

\* _handle_delete: the timestamp is popped whatever the type is.
HandleDelete(c, t, id) ==
    LET popped == IF t \in CachedTypes
                  THEN [c EXCEPT ![MapOf(t)] = Pop(@, id)]
                  ELSE c
    IN [popped EXCEPT !.last_update = Pop(@, id)]

\* _patch_state: an attribute the payload carries replaces the snapshot's
\* attribute of that name as a whole, if the snapshot has one.
PatchState(current_state, event) ==
    LET withOn == IF event.on # NoOn /\ "on" \in current_state.attrs
                  THEN [current_state EXCEPT !.on = event.on]
                  ELSE current_state
    IN IF event.dimming # NoDimming /\ "dimming" \in withOn.attrs
       THEN [withOn EXCEPT !.dimming = event.dimming]
       ELSE withOn

\* Fault variant of _handle_update: an absent entry is created from the
\* payload.
HandleUpdateCreates(c, event) ==
    IF event.resource_type \notin CachedTypes THEN c
    ELSE [c EXCEPT
            ![MapOf(event.resource_type)] =
                Put(@, event.resource_id,
                    [attrs |-> {"on", "dimming"}, on |-> event.on,
                     dimming |-> event.dimming, name |-> "event"]),
            !.last_update = Put(@, event.resource_id, event.timestamp)]

\* _handle_update: nothing for an entry that is not there (a response DTO
\* is never falsy), else the patch and the event's timestamp.
HandleUpdate(c, event) ==
    IF ~Cached(c, event.resource_type, event.resource_id) THEN c
    ELSE [c EXCEPT
            ![MapOf(event.resource_type)][event.resource_id] =
                PatchState(@, event),
            !.last_update = Put(@, event.resource_id, event.timestamp)]

\* update_from_event
UpdateFromEventOn(c, event) ==
    IF event.event_type = "delete"
    THEN HandleDelete(c, event.resource_type, event.resource_id)
    ELSE IF event.event_type \in {"update", "add"}
    THEN HandleUpdate(c, event)
    ELSE c

\* The object a caller holds after a call for (t, id): the map and the
\* caller hold one object, so a patch of the entry is a change of the held
\* value; once the entry is replaced or removed the caller's object is
\* no longer the map's.
HeldAfter(c, t, id, replaced) ==
    IF ~(held.live /\ held.resource_type = t /\ held.resource_id = id)
    THEN held
    ELSE IF replaced \/ ~Cached(c, t, id)
    THEN [held EXCEPT !.live = FALSE]
    ELSE [held EXCEPT !.value = c[MapOf(t)][id]]

\* The calls on the StateManager are synchronous: each is one action.
\* datetime.now() of the n-th call is n.
CanCall == cacheCall.n < env.maxCalls

UpdateFromRest(t, id, data) ==
    /\ CanCall
    /\ cache' = UpdateFromRestOn(cache, t, id, data, cacheCall.n + 1)
    /\ cacheCall' = [NoCall EXCEPT !.op = "update_from_rest",
                                   !.n = cacheCall.n + 1,
                                   !.resource_type = t, !.resource_id = id]
    /\ written' = written \cup {<<t, id>>}
    /\ held' = HeldAfter(cache', t, id, TRUE)
    /\ UNCHANGED <<env, busVars, lastRet, ghostVars, svcVars, sse,
                   conn>>

UpdateFromEvent(event) ==
    /\ CanCall
    /\ cache' = UpdateFromEventOn(cache, event)
    /\ cacheCall' = [op |-> "update_from_event", n |-> cacheCall.n + 1,
                     event_type |-> event.event_type,
                     resource_type |-> event.resource_type,
                     resource_id |-> event.resource_id,
                     timestamp |-> event.timestamp,
                     on |-> event.on, dimming |-> event.dimming]
    /\ written' = IF event.event_type = "delete"
                  THEN written \ {<<event.resource_type, event.resource_id>>}
                  ELSE written
    /\ held' = HeldAfter(cache', event.resource_type, event.resource_id,
                         event.event_type = "delete")
    /\ UNCHANGED <<env, busVars, lastRet, ghostVars, svcVars, sse,
                   conn>>

\* clear()
Clear ==
    /\ CanCall
    /\ cache' = EmptyCache
    /\ cacheCall' = [NoCall EXCEPT !.op = "clear", !.n = cacheCall.n + 1]
    /\ written' = {}
    /\ held' = [held EXCEPT !.live = FALSE]
    /\ UNCHANGED <<env, busVars, lastRet, ghostVars, svcVars, sse,
                   conn>>

\* What `return self._lights.get(light_id)` hands out: the cached object.
Hold(t, id, snapshot) ==
    [has |-> TRUE, live |-> TRUE, resource_type |-> t, resource_id |-> id,
     value |-> snapshot]

\* get_light, get_grouped_light, get_room, get_scene for an id that has an
\* entry, and the values of get_all_lights and get_all_rooms, whose dict is
\* a copy but whose values are the cached objects.
GetCached(t, id) ==
    /\ CanCall
    /\ Cached(cache, t, id)
    /\ held' = Hold(t, id, cache[MapOf(t)][id])
    /\ cacheCall' = [NoCall EXCEPT !.op = "get", !.n = cacheCall.n + 1,
                                   !.resource_type = t, !.resource_id = id]
    /\ UNCHANGED <<env, busVars, lastRet, ghostVars, svcVars, cache, written,
                   sse, conn>>

\* The caller assigns an attribute of the value it holds (the response
\* DTOs are not frozen): the object changes, and with it the cache when
\* the map holds this object.
CallerSets(name) ==
    /\ CanCall
    /\ held.has
    /\ held' = [held EXCEPT !.value.name = name]
    /\ cache' = IF held.live
                THEN [cache EXCEPT ![MapOf(held.resource_type)]
                                    [held.resource_id] = held'.value]
                ELSE cache
    /\ cacheCall' = [NoCall EXCEPT !.op = "caller_sets",
                                   !.n = cacheCall.n + 1,
                                   !.resource_type = held.resource_type,
                                   !.resource_id = held.resource_id]
    /\ UNCHANGED <<env, busVars, lastRet, ghostVars, svcVars, written, sse,
                   conn>>

LightUpdate == [event_type |-> "update", resource_type |-> "light",
                resource_id |-> "r1"]
MotionUpdate == [event_type |-> "update", resource_type |-> "motion",
                 resource_id |-> "r2"]

BusEnv == [filters |-> {NoFilter}, shapes |-> {LightUpdate}, raising |-> TRUE, maxMessages |-> 0,
           handlers |-> {"async"}, trace |-> {"ret"},
           maxSubs |-> MaxSubs, maxPublish |-> MaxPublish,
           maxStarts |-> MaxStarts]

\* EventService, EventProducer and EventClient after construction.
IdleService ==
    [connected |-> FALSE,     \* EventClient._connected
     hasClient |-> TRUE,      \* EventClient._client is not None
     endpoint |-> FALSE,      \* EventClient._current_endpoint is not None
     prodRunning |-> FALSE,   \* EventProducer._is_running
     taskRef |-> FALSE,       \* EventService._processing_task is not None
     task |-> "none",         \* where the processing task is
     restart |-> "no",        \* restart_streaming() in flight, and whether
                              \* the service was streaming at its call
     cancelReq |-> FALSE,     \* cancel() was called on the processing task
     retry |-> 0,             \* listen()'s retry_count
     empty |-> 0,             \* history: attempts since the last frame
     shutdown |-> FALSE,      \* EventService._shutdown_event
     stopPc |-> "idle",       \* where stop_event_stream() is
     syncSub |-> 0]           \* HueClient._event_subscription_id (0: None)
NotTransformed == [msg |-> <<>>, out |-> <<>>, done |-> FALSE]

InitBus(e) ==
    /\ env = e
    /\ subscriptions = <<>>
    /\ nextSub = 1
    /\ isRunning = FALSE
    /\ eventQueue = <<>>
    /\ loops = <<>>
    /\ handlerTasks = {}
    /\ stopper = IdleStopper
    /\ lastRet = NoRet
    /\ published = 0
    /\ received = [s \in 1..e.maxSubs |-> <<>>]
    /\ history = <<>>
    /\ failed = 0
    /\ unsubAt = [s \in 1..e.maxSubs |-> -1]
    /\ svc = IdleService
    /\ stream = 0
    /\ transformed = NotTransformed
    /\ derived = <<>>
    /\ cache = EmptyCache
    /\ cacheCall = NoCall
    /\ written = {}
    /\ held = NoHeld
    /\ sse = NoFrames
    /\ conn = NoLines

Init == InitBus(BusEnv)

Next ==
    \/ Start /\ UNCHANGED svcVars
    \/ StopCall /\ UNCHANGED svcVars
    \/ StopReturn /\ UNCHANGED svcVars
    \/ StopTimeout /\ UNCHANGED svcVars
    \/ \E shape \in env.shapes : Publish(shape) /\ UNCHANGED svcVars
    \/ \E h \in env.handlers, f \in env.filters :
          Subscribe(h, f) /\ UNCHANGED svcVars
    \/ \E sid \in SubIds : Unsubscribe(sid) /\ UNCHANGED svcVars
    \/ \E sid \in SubIds : UnsubscribeFromEvents(sid) /\ UNCHANGED svcVars
    \/ \E l \in DOMAIN loops : LoopStep(l) /\ UNCHANGED svcVars
    \/ \E l \in DOMAIN loops, fail \in SUBSET SubIds, susp \in SUBSET SubIds :
          HandlersStart(l, fail, susp) /\ UNCHANGED svcVars
    \/ \E h \in handlerTasks, ok \in BOOLEAN :
          HandlerFinish(h, ok) /\ UNCHANGED svcVars
    \/ \E l \in DOMAIN loops : LoopResume(l) /\ UNCHANGED svcVars

Spec == Init /\ [][Next]_vars

\* SpecTable: the table changing between publish() and the dequeue, and
\* during a dispatch.
TableEnv == [filters |-> {NoFilter}, shapes |-> {LightUpdate},
             raising |-> FALSE, maxMessages |-> 0,
             handlers |-> {"async"}, trace |-> {"table"},
             maxSubs |-> TableSubs, maxPublish |-> TablePublish,
             maxStarts |-> TableStarts]
InitTable == InitBus(TableEnv)
SpecTable == InitTable /\ [][Next]_vars

\* SpecRestart: the bus with one owner that calls start() only when no
\* stop() of its own is waiting: every start() after the first follows a
\* stop() that has returned.
NextRestart ==
    \/ stopper.pc = "idle" /\ Start /\ UNCHANGED svcVars
    \/ StopCall /\ UNCHANGED svcVars
    \/ StopReturn /\ UNCHANGED svcVars
    \/ StopTimeout /\ UNCHANGED svcVars
    \/ \E shape \in env.shapes : Publish(shape) /\ UNCHANGED svcVars
    \/ \E h \in env.handlers, f \in env.filters :
          Subscribe(h, f) /\ UNCHANGED svcVars
    \/ \E sid \in SubIds : Unsubscribe(sid) /\ UNCHANGED svcVars
    \/ \E l \in DOMAIN loops : LoopStep(l) /\ UNCHANGED svcVars
    \/ \E l \in DOMAIN loops, fail \in SUBSET SubIds, susp \in SUBSET SubIds :
          HandlersStart(l, fail, susp) /\ UNCHANGED svcVars
    \/ \E h \in handlerTasks, ok \in BOOLEAN :
          HandlerFinish(h, ok) /\ UNCHANGED svcVars
    \/ \E l \in DOMAIN loops : LoopResume(l) /\ UNCHANGED svcVars
SpecRestart == Init /\ [][NextRestart]_vars

\* SpecFan: several subscriptions, sync and async, for one event.
FanEnv == [filters |-> {LightFilter}, shapes |-> {LightUpdate, MotionUpdate},
           raising |-> TRUE, maxMessages |-> 0,
           handlers |-> {"sync", "async"}, trace |-> {},
           maxSubs |-> FanSubs, maxPublish |-> FanPublish,
           maxStarts |-> FanStarts]
InitFan == InitBus(FanEnv)
SpecFan == InitFan /\ [][Next]_vars

\* SpecUnsub: events published before and after an unsubscribe().
UnsubEnv == [filters |-> {NoFilter}, shapes |-> {LightUpdate}, raising |-> TRUE, maxMessages |-> 0,
             handlers |-> {"async"}, trace |-> {"unsub"},
             maxSubs |-> UnsubSubs, maxPublish |-> UnsubPublish,
             maxStarts |-> UnsubStarts]
InitUnsub == InitBus(UnsubEnv)
SpecUnsub == InitUnsub /\ [][Next]_vars

\* SpecFail: handlers that raise, with siblings and following events.
FailEnv == [filters |-> {NoFilter}, shapes |-> {LightUpdate}, raising |-> TRUE, maxMessages |-> 0,
            handlers |-> {"async"}, trace |-> {"failed"},
            maxSubs |-> FailSubs, maxPublish |-> FailPublish,
            maxStarts |-> FailStarts]
InitFail == InitBus(FailEnv)
SpecFail == InitFail /\ [][Next]_vars

\* SpecFilter: one filter out of all and one event out of all, on a bus that
\* is started, subscribed to with sync handlers and published to.
FilterEnv(f, e) == [filters |-> {f}, shapes |-> {e}, raising |-> FALSE, maxMessages |-> 0,
                    handlers |-> {"sync"}, trace |-> {},
                    maxSubs |-> FilterSubs, maxPublish |-> FilterPublish,
                    maxStarts |-> FilterStarts]
InitFilter == \E f \in AllFilters, e \in EventShapes : InitBus(FilterEnv(f, e))
NextFilter ==
    \/ Start /\ UNCHANGED svcVars
    \/ \E shape \in env.shapes : Publish(shape) /\ UNCHANGED svcVars
    \/ \E h \in env.handlers, f \in env.filters :
          Subscribe(h, f) /\ UNCHANGED svcVars
    \/ \E l \in DOMAIN loops : LoopStep(l) /\ UNCHANGED svcVars
    \/ \E l \in DOMAIN loops : HandlersStart(l, {}, {}) /\ UNCHANGED svcVars
    \/ \E l \in DOMAIN loops : LoopResume(l) /\ UNCHANGED svcVars
SpecFilter == InitFilter /\ [][NextFilter]_vars

\* SpecTransform: transform() on every validated message within the bounds.
TransformEnv == [filters |-> {NoFilter}, shapes |-> {}, raising |-> FALSE, maxMessages |-> 0,
                 handlers |-> {"sync"}, trace |-> {},
                 maxSubs |-> 0, maxPublish |-> 0, maxStarts |-> 0]
InitTransform == InitBus(TransformEnv)
NextTransform == \E m \in Messages : TransformCall(m)
SpecTransform == InitTransform /\ [][NextTransform]_vars

\* What the caller and the bridge do to a service, and what runs by itself.
\* The caller awaits one call of start_event_stream or stop_event_stream
\* before it makes the next.
NextService ==
    \/ svc.stopPc = "idle" /\ StartEventStream
    \/ StopEventStream
    \/ StopAfterTask
    \/ StopAfterAclose
    \/ BusStopReturns
    \/ TaskBegin
    \/ \E ok \in BOOLEAN : TaskConnect(ok)
    \/ TaskWake
    \/ TaskStreamError
    \/ TaskStreamEnds
    \/ \E m \in env.messages : TaskMessage(m)
    \/ TaskCancelled
    \/ \E h \in env.handlers, f \in env.filters :
          SubscribeToEvents(h, f) /\ UNCHANGED svcVars
    \/ \E sid \in SubIds : UnsubscribeFromEvents(sid) /\ UNCHANGED svcVars
    \/ \E l \in DOMAIN loops : LoopStep(l) /\ UNCHANGED svcVars
    \/ \E l \in DOMAIN loops, fail \in SUBSET SubIds, susp \in SUBSET SubIds :
          HandlersStart(l, fail, susp) /\ UNCHANGED svcVars
    \/ \E h \in handlerTasks, ok \in BOOLEAN :
          HandlerFinish(h, ok) /\ UNCHANGED svcVars
    \/ \E l \in DOMAIN loops : LoopResume(l) /\ UNCHANGED svcVars

\* The message [e1{light r1, motion r2}].
TwoChanges ==
    << [id |-> "e1", type |-> "update", creationtime |-> 1,
        data |-> << [id |-> "r1", type |-> "light", owner |-> "none"],
                    [id |-> "r2", type |-> "motion", owner |-> "ref"] >>] >>

\* SpecService: a caller starts and stops the stream of a service whose
\* bridge connection may fail at any point.
ServiceEnv == [filters |-> {NoFilter}, shapes |-> {}, raising |-> TRUE,
               maxMessages |-> SvcMessages,
               handlers |-> {"async"}, trace |-> {"ret", "attempts"},
               maxSubs |-> SvcSubs, maxPublish |-> 0, maxStarts |-> SvcStarts,
               messages |-> {TwoChanges}]
InitService == InitBus(ServiceEnv)
SpecService == InitService /\ [][NextService]_vars

\* SpecController: the service under an EventController, whose caller
\* starts, stops and restarts the stream.  Between the return of
\* stop_streaming() and the call of start_streaming() in restart_streaming
\* nothing else runs: there is no suspension.
NextController ==
    \/ svc.stopPc # "start_streaming" /\ NextService
    \/ RestartStreaming
    \/ RestartStarts
ControllerEnv == [filters |-> {NoFilter}, shapes |-> {}, raising |-> TRUE,
                  maxMessages |-> CtlMessages,
                  handlers |-> {"async"}, trace |-> {"ret"},
                  maxSubs |-> CtlSubs, maxPublish |-> 0,
                  maxStarts |-> CtlStarts, messages |-> {TwoChanges}]
InitController == InitBus(ControllerEnv)
SpecController == InitController /\ [][NextController]_vars

\* SpecCache: the StateManager alone, called with every snapshot and every
\* event in every order.
NextCache ==
    \/ \E t \in CacheTypes, id \in CacheIds :
          \E data \in Snapshots(t) : UpdateFromRest(t, id, data)
    \/ \E event \in CacheEvents : UpdateFromEvent(event)
    \/ Clear
CacheEnv == [filters |-> {NoFilter}, shapes |-> {}, raising |-> FALSE,
             maxMessages |-> 0, handlers |-> {"async"}, trace |-> {},
             maxSubs |-> 0, maxPublish |-> 0, maxStarts |-> 0,
             maxCalls |-> CacheCalls]
InitCache == InitBus(CacheEnv)
SpecCache == InitCache /\ [][NextCache]_vars

\* The message [e2{light r1}], a delete.
OneDelete ==
    << [id |-> "e2", type |-> "delete", creationtime |-> 2,
        data |-> << [id |-> "r1", type |-> "light", owner |-> "none"] >>] >>

\* The stop() the owner of the bus called returns, its dispatch task
\* having exited or the timeout having passed.
OwnerStopReturns ==
    /\ svc.stopPc = "idle"
    /\ \/ StopReturn
       \/ StopTimeout
    /\ UNCHANGED svcVars

\* SpecBusDown: the service and the owner of the bus it was built with,
\* who stops and starts the bus while the service streams.  The two
\* callers do not overlap, and nothing is subscribed.
NextBusDown ==
    \/ svc.stopPc = "idle" /\ stopper.pc = "idle" /\ StartEventStream
    \/ stopper.pc = "idle" /\ StopEventStream
    \/ StopAfterTask
    \/ StopAfterAclose
    \/ BusStopReturns
    \/ TaskBegin
    \/ \E ok \in BOOLEAN : TaskConnect(ok)
    \/ TaskWake
    \/ TaskStreamError
    \/ TaskStreamEnds
    \/ \E m \in env.messages : TaskMessage(m)
    \/ TaskCancelled
    \/ \E l \in DOMAIN loops : LoopStep(l) /\ UNCHANGED svcVars
    \/ svc.stopPc = "idle" /\ StopCall /\ UNCHANGED svcVars
    \/ OwnerStopReturns
    \/ svc.stopPc = "idle" /\ stopper.pc = "idle" /\ Start
                            /\ UNCHANGED svcVars
BusDownEnv == [filters |-> {NoFilter}, shapes |-> {}, raising |-> TRUE,
               maxMessages |-> DownMessages,
               handlers |-> {"async"}, trace |-> {"derived"},
               maxSubs |-> 0, maxPublish |-> 0,
               maxStarts |-> DownStarts,
               messages |-> {TwoChanges, OneDelete}]
InitBusDown == InitBus(BusDownEnv)
SpecBusDown == InitBusDown /\ [][NextBusDown]_vars

\* SpecOverlap: the same service with two callers: start_event_stream() may
\* be called while a stop_event_stream() is suspended.
NextOverlap ==
    \/ svc.stopPc # "idle" /\ StartEventStream
    \/ NextService
OverlapEnv == [filters |-> {NoFilter}, shapes |-> {}, raising |-> TRUE,
               maxMessages |-> LapMessages,
               handlers |-> {"async"}, trace |-> {"ret"},
               maxSubs |-> LapSubs, maxPublish |-> 0,
               maxStarts |-> LapStarts, messages |-> {TwoChanges}]
InitOverlap == InitBus(OverlapEnv)
SpecOverlap == InitOverlap /\ [][NextOverlap]_vars

\* SpecRaw: transform() on every message within the bounds, validated or
\* not.
NextRaw == \E m \in RawMessages : TransformCall(m)
RawEnv == [filters |-> {NoFilter}, shapes |-> {}, raising |-> FALSE,
           maxMessages |-> 0, handlers |-> {"sync"}, trace |-> {},
           maxSubs |-> 0, maxPublish |-> 0, maxStarts |-> 0]
InitRaw == InitBus(RawEnv)
SpecRaw == InitRaw /\ [][NextRaw]_vars

\* SpecClient: a HueClient with the state cache, whose owner starts and
\* stops the stream; the client's handler is the only subscriber and is a
\* plain function, which never suspends.
NextClient ==
    \/ HueStartEventStream
    \/ HueStopEventStream
    \/ StopAfterTask
    \/ StopAfterAclose
    \/ BusStopReturns
    \/ TaskBegin
    \/ \E ok \in BOOLEAN : TaskConnect(ok)
    \/ TaskWake
    \/ TaskStreamError
    \/ TaskStreamEnds
    \/ \E m \in env.messages : TaskMessage(m)
    \/ TaskCancelled
    \/ \E l \in DOMAIN loops : LoopStep(l) /\ UNCHANGED svcVars
    \/ \E l \in DOMAIN loops :
          HandlersStart(l, {}, {}) /\ UNCHANGED svcVars
    \/ \E l \in DOMAIN loops : LoopResume(l) /\ UNCHANGED svcVars
ClientEnv == [filters |-> {NoFilter}, shapes |-> {}, raising |-> FALSE,
              maxMessages |-> HueMessages,
              handlers |-> {"sync"}, trace |-> {},
              maxSubs |-> HueSubs, maxPublish |-> 0, maxStarts |-> HueStarts,
              messages |-> {OneDelete}]
InitClient == InitBus(ClientEnv)
SpecClient == InitClient /\ [][NextClient]_vars

\* SpecLines: listen() given every sequence of lines on one connection.
NextLines ==
    \/ \E line \in Lines : ReadLine(line)
    \/ LinesEnd
LinesEnv == [filters |-> {NoFilter}, shapes |-> {}, raising |-> FALSE,
             maxMessages |-> 0, handlers |-> {"sync"}, trace |-> {},
             maxSubs |-> 0, maxPublish |-> 0, maxStarts |-> 0]
InitLines == InitBus(LinesEnv)
SpecLines == InitLines /\ [][NextLines]_vars

\* SpecFrames: get_event_stream given every frame, in every order.
NextFrames ==
    \/ \E raw_event \in Frames : ListenYields(raw_event)
    \/ ListenEnds
FramesEnv == [filters |-> {NoFilter}, shapes |-> {}, raising |-> FALSE,
              maxMessages |-> 0, handlers |-> {"async"}, trace |-> {},
              maxSubs |-> 0, maxPublish |-> 0, maxStarts |-> 0,
              maxFrames |-> MaxFrames]
InitFrames == InitBus(FramesEnv)
SpecFrames == InitFrames /\ [][NextFrames]_vars

\* SpecAlias: the StateManager and a caller of its read accessors that keeps
\* the value it got and may assign to it.
NextAlias ==
    \/ \E t \in CacheTypes, id \in CacheIds :
          \E data \in Snapshots(t) : UpdateFromRest(t, id, data)
    \/ \E event \in CacheEvents : UpdateFromEvent(event)
    \/ Clear
    \/ \E t \in CachedTypes, id \in CacheIds : GetCached(t, id)
    \/ CallerSets("caller")
AliasEnv == [filters |-> {NoFilter}, shapes |-> {}, raising |-> FALSE,
             maxMessages |-> 0, handlers |-> {"async"}, trace |-> {},
             maxSubs |-> 0, maxPublish |-> 0, maxStarts |-> 0,
             maxCalls |-> AliasCalls]
InitAlias == InitBus(AliasEnv)
SpecAlias == InitAlias /\ [][NextAlias]_vars

\* SpecStream: the same service, with the event loop running every task
\* that is ready: the dispatch task when the queue has an item or gather()
\* has returned, and the handler tasks it created.  Whether a suspended
\* handler ever returns is up to the handler.
StreamEnv == [filters |-> {NoFilter, LightFilter}, shapes |-> {},
              raising |-> TRUE, maxMessages |-> LiveMessages,
              handlers |-> {"async"}, trace |-> {"table", "derived"},
              maxSubs |-> LiveSubs, maxPublish |-> 0, maxStarts |-> LiveStarts,
              messages |-> {TwoChanges}]
InitStream == InitBus(StreamEnv)
DispatchTaskRuns(l) ==
    /\ l \in DOMAIN loops
    /\ LoopStep(l) \/ LoopResume(l)
    /\ UNCHANGED svcVars
HandlerTasksRun(l) ==
    /\ l \in DOMAIN loops
    /\ \E fail \in SUBSET SubIds, susp \in SUBSET SubIds :
          HandlersStart(l, fail, susp)
    /\ UNCHANGED svcVars
SpecStream ==
    /\ InitStream
    /\ [][NextService]_vars
    /\ \A l \in 1..LiveStarts :
          WF_vars(DispatchTaskRuns(l)) /\ WF_vars(HandlerTasksRun(l))

\* SpecHang: the bus of Spec under the scheduling of the event loop: a
\* dispatch task or handler task that is ready runs, and the timer of
\* wait_for expires; a suspended handler need never return.
StopEnds == (StopReturn \/ StopTimeout) /\ UNCHANGED svcVars
SpecHang ==
    /\ Init
    /\ [][Next]_vars
    /\ WF_vars(StopEnds)
    /\ \A l \in 1..MaxStarts :
          WF_vars(DispatchTaskRuns(l)) /\ WF_vars(HandlerTasksRun(l))

\* SpecHangSerial: the same with the one owner of SpecRestart.
SpecHangSerial ==
    /\ Init
    /\ [][NextRestart]_vars
    /\ WF_vars(StopEnds)
    /\ \A l \in 1..MaxStarts :
          WF_vars(DispatchTaskRuns(l)) /\ WF_vars(HandlerTasksRun(l))

\* ------------------------------------------------------------------ claims
Count(n, log) == Cardinality({i \in DOMAIN log : log[i] = n})
Increasing(log) == \A i, j \in DOMAIN log : i < j => log[i] < log[j]

\* C1: every handler gets the events it matches in the order they were
\* published, and no handler is invoked for an event while a handler invoked
\* for an earlier event has neither returned nor raised.
C1_OrderedDelivery ==
    /\ \A s \in SubIds : Increasing(received[s])
    /\ \A h \in handlerTasks :
          h.st = "suspended" =>
             \A s \in SubIds : \A i \in DOMAIN received[s] :
                received[s][i] <= h.seq

\* What the claims say a filter lets through: every dimension that is
\* present and non-empty contains the event's attribute.
Receives(f, e) ==
    \/ f.none
    \/ /\ (f.event_types.present /\ f.event_types.vals # {})
             => e.event_type \in f.event_types.vals
       /\ (f.resource_types.present /\ f.resource_types.vals # {})
             => e.resource_type \in f.resource_types.vals
       /\ (f.resource_ids.present /\ f.resource_ids.vals # {})
             => e.resource_id \in f.resource_ids.vals

\* C2: a subscription's filter lets an event through if and only if every
\* dimension of it that is present and non-empty contains the event's
\* attribute (the dimensions are AND-combined; no filter, an absent dimension
\* and an empty one constrain nothing), and a handler is invoked only for
\* events its filter lets through.
C2_FilterSemantics ==
    \A s \in DOMAIN subscriptions :
       /\ \A e \in EventShapes :
             MatchesFilter(e, subscriptions[s].filter)
                <=> Receives(subscriptions[s].filter, e)
       /\ \A i \in DOMAIN received[s] :
             Receives(subscriptions[s].filter, history[received[s][i]].ev)

\* An event went through a filter with an empty dimension, a dimension that
\* contains the event's attribute and an absent one.
C2_Witness ==
    /\ 1 \in DOMAIN subscriptions
    /\ subscriptions[1].filter =
          [none |-> FALSE, event_types |-> [present |-> TRUE, vals |-> {}],
           resource_types |-> [present |-> TRUE, vals |-> {"light"}],
           resource_ids |-> AbsentDim]
    /\ received[1] = <<1>>
    /\ history[1].ev.resource_type = "light"

\* An event was dispatched past a filter one of whose dimensions excludes it.
C2_WitnessExcluded ==
    /\ 1 \in DOMAIN subscriptions
    /\ subscriptions[1].filter.resource_ids = [present |-> TRUE, vals |-> {"r2"}]
    /\ 1 \in DOMAIN history
    /\ history[1].done /\ history[1].ev.resource_id = "r1"
    /\ received[1] = <<>>

\* The changes of a message: <<i, j>> is change j of envelope i.
ChangesOf(m) == UNION {{<<i, j>> : j \in DOMAIN m[i].data} : i \in DOMAIN m}
\* Envelope order, then change order within the envelope.
Before(p, q) == p[1] < q[1] \/ (p[1] = q[1] /\ p[2] < q[2])
Rank(m, p) == Cardinality({q \in ChangesOf(m) : Before(q, p)}) + 1

\* C7: transform(message) returns exactly one event per resource change of
\* the message, in envelope order and then change order, each with its
\* envelope's id, kind and timestamp and its change's resource type and id.
C7_OneEventPerChange ==
    transformed.done =>
       LET m == transformed.msg
           out == transformed.out
       IN /\ Len(out) = Cardinality(ChangesOf(m))
          /\ \A p \in ChangesOf(m) :
                LET e == out[Rank(m, p)]
                    envelope == m[p[1]]
                    change == envelope.data[p[2]]
                IN /\ e.event_id = envelope.id
                   /\ e.event_type = envelope.type
                   /\ e.timestamp = envelope.creationtime
                   /\ e.resource_type = change.type
                   /\ e.resource_id = change.id

\* The message [e1{c1, c2}, e2{c3}] gave the events of c1, c2, c3.
C7_Witness ==
    /\ transformed.done
    /\ Len(transformed.msg) = 2
    /\ transformed.msg[1].id = "e1" /\ Len(transformed.msg[1].data) = 2
    /\ transformed.msg[2].id = "e2" /\ Len(transformed.msg[2].data) = 1
    /\ transformed.msg[1].data[1].id = "r1"
    /\ transformed.msg[1].data[2].id = "r2"
    /\ transformed.msg[2].data[1].id = "r1"
    /\ [k \in 1..3 |-> <<transformed.out[k].event_id,
                          transformed.out[k].resource_id>>]
          = << <<"e1", "r1">>, <<"e1", "r2">>, <<"e2", "r1">> >>
    /\ Len(transformed.out) = 3

\* The events a step takes off the queue.
Dequeued ==
    {eventQueue[i] : i \in 1..(Len(eventQueue) - Len(eventQueue'))} \ {NoneItem}

\* C3: no handler is ever invoked twice for one published event; an event
\* taken off the queue gets one invocation under way for each of the N
\* subscriptions that match it and for no other; and an invocation under way
\* calls its handler once, unless stop() cancels the dispatch first.
C3_FanOut ==
    /\ [](\A n \in DOMAIN history : \A s \in SubIds :
             Count(n, received[s]) <= 1)
    /\ [][/\ \A e \in Dequeued :
                {h.sid : h \in {g \in handlerTasks' \ handlerTasks :
                                   g.seq = e.seq /\ g.st = "pending"}}
                   = {s \in DOMAIN subscriptions :
                         Receives(subscriptions[s].filter, e)}
          /\ \A h \in handlerTasks :
                 h.st = "pending" =>
                    \/ h \in handlerTasks'
                    \/ received'[h.sid] = Append(received[h.sid], h.seq)
                    \/ loops'[h.loop].st = "cancelled"
          /\ \A s \in SubIds :
                 received'[s] # received[s] =>
                    \E h \in handlerTasks :
                       /\ h.sid = s /\ h.st = "pending"
                       /\ received'[s] = Append(received[s], h.seq)
      ]_vars

\* Two subscriptions matching event 1, a sync and an async one, each invoked
\* once, and the dispatch of the event complete.
C3_Witness ==
    /\ 1 \in DOMAIN history
    /\ history[1].done
    /\ history[1].ev.resource_type = "light"
    /\ DOMAIN subscriptions = {1, 2}
    /\ subscriptions[1].handler = "sync" /\ subscriptions[2].handler = "async"
    /\ received[1] = <<1>> /\ received[2] = <<1>>

\* C4: once unsubscribe(S) has returned True, S's handler is invoked for no
\* event published afterwards.
C4_NoDeliveryAfterUnsubscribe ==
    \A s \in SubIds :
       unsubAt[s] >= 0 =>
          \A i \in DOMAIN received[s] : received[s][i] <= unsubAt[s]

\* S got event 1, was unsubscribed, and event 2 has since been dispatched.
C4_Witness ==
    /\ unsubAt[1] = 1
    /\ received[1] = <<1>>
    /\ 2 \in DOMAIN history /\ history[2].done

\* A step in which unsubscribe() (either entry point) returns.
UnsubscribeReturns ==
    /\ lastRet'.op \in {"unsubscribe", "unsubscribe_from_events"}
    /\ <<lastRet, subscriptions>>' # <<lastRet, subscriptions>>

\* C5: unsubscribe(id) returns True exactly when id is in the table, and
\* then removes that entry and no other; otherwise it returns False and the
\* table is unchanged.  unsubscribe_from_events returns the same.
C5_UnsubscribeResult ==
    [][UnsubscribeReturns =>
          /\ (lastRet'.val = "True") <=> (lastRet'.arg \in DOMAIN subscriptions)
          /\ lastRet'.val \in {"True", "False"}
          /\ DOMAIN subscriptions' = DOMAIN subscriptions \ {lastRet'.arg}
          /\ \A s \in DOMAIN subscriptions' : subscriptions'[s] = subscriptions[s]
      ]_vars

\* The second unsubscribe of an id that was removed returns False.
C5_Witness ==
    /\ lastRet = [op |-> "unsubscribe_from_events", arg |-> 1, val |-> "False"]
    /\ nextSub = 2
    /\ subscriptions = <<>>
    /\ isRunning

\* A step in which a handler raises (for an event none raised for before).
HandlerFails == failed' # failed

\* C8: a handler's failure leaves the dispatch task, the queue and the
\* running flag as they are, every sibling handler of the event is still
\* invoked and runs on, the handlers of other events are untouched, and the
\* dispatch task of a bus nobody stopped never exits.
C8_FailureIsolated ==
    /\ [][HandlerFails =>
             /\ loops' = loops
             /\ isRunning' = isRunning
             /\ eventQueue' = eventQueue
             /\ \A h \in handlerTasks :
                   \/ h.st = "pending" /\ h.seq = failed'
                         /\ received'[h.sid] = Append(received[h.sid], h.seq)
                   \/ h.seq # failed' /\ h \in handlerTasks'
                   \/ h.st = "suspended" /\ h \in handlerTasks'
                   \/ h.st = "suspended" /\ h.seq = failed'
                         /\ handlerTasks' = handlerTasks \ {h}
         ]_vars
    /\ [](isRunning /\ Len(loops) = 1 => ~Finished(1))

\* A handler raised on event 1; its sibling was invoked for event 1 all the
\* same, and both were invoked for event 2 afterwards.
C8_Witness ==
    /\ failed = 1
    /\ received[1] = <<1, 2>> /\ received[2] = <<1, 2>>
    /\ 2 \in DOMAIN history /\ history[2].done
    /\ isRunning


\* A step in which stop_event_stream returns to its caller: at once, when
\* is_streaming() is false, or after bus.stop().
StopEventStreamReturns ==
    \/ StopEventStream /\ ~IsStreaming
    \/ svc.stopPc # "idle" /\ svc'.stopPc = "idle"

\* C9: once the processing task has ended on a fatal stream error,
\* is_streaming() is false, and the next start_event_stream() returns
\* without raising, with the producer and the bus running and a new
\* processing task started.
C9_FreshStartAfterFatal ==
    /\ [](svc.task = "failed" => ~IsStreaming)
    /\ [][svc.task = "failed" /\ StartEventStream =>
             /\ lastRet'.val = "None"
             /\ svc'.task = "new"
             /\ ProducerIsRunning'
             /\ isRunning'
        ]_vars

\* C10: when stop_event_stream() returns after a start_event_stream() that
\* succeeded, the processing task has finished, the producer is not
\* running, the bus is not running and every dispatch task has finished,
\* also when the processing task had ended by itself before the call.
C10_NothingLeftActive ==
    [][svc.task # "none" /\ StopEventStreamReturns =>
          /\ TaskDone'
          /\ ~svc'.prodRunning
          /\ ~isRunning'
          /\ \A l \in DOMAIN loops' : loops'[l].st \in {"done", "cancelled"}
      ]_vars


\* Event n has been taken from the queue, and the handler of every
\* subscription that was in the table then, with a filter that lets the
\* event through, has been invoked with it.
Delivered(n) ==
    /\ n \in DOMAIN history
    /\ history[n].table.seen
    /\ \A s \in DOMAIN history[n].table.subs :
          Receives(history[n].table.subs[s].filter, history[n].ev)
             => Count(n, received[s]) = 1

\* The service is no longer streaming: stop_event_stream() has been called
\* on it, or is_streaming() is false.
StreamStopped == svc.shutdown \/ ~IsStreaming

\* The n-th event transform() returned is the n-th event the bus accepted,
\* and every handler got its events in that order.
InTransformerOrder ==
    /\ \A n \in DOMAIN derived :
          /\ n \in DOMAIN history
          /\ history[n].ev.event_type = derived[n].event_type
          /\ history[n].ev.resource_type = derived[n].resource_type
          /\ history[n].ev.resource_id = derived[n].resource_id
    /\ \A s \in DOMAIN received : Increasing(received[s])

\* No handler stays suspended for ever.
HandlersReturn == []<>(\A h \in handlerTasks : h.st # "suspended")

\* C6 as stated: while the service is streaming, every event transform()
\* returned for a message of the producer is in the end delivered to every
\* subscription whose filter matches it, in the order transform() gave.
C6_EventuallyDelivered ==
    /\ \A n \in 1..(LiveMessages * MaxChanges) :
          (n \in DOMAIN derived) ~> (Delivered(n) \/ StreamStopped)
    /\ []InTransformerOrder

\* C6, given that every handler invocation returns or raises: while the
\* service is streaming, every event transform() returned for a message of
\* the producer is in the end delivered to every subscription whose filter
\* matches it, in the order transform() gave.
C6_DeliveredIfHandlersReturn ==
    HandlersReturn => C6_EventuallyDelivered

\* Both events of a message have been delivered to a subscription that
\* takes everything, and the service is still streaming.
C6_Witness ==
    /\ Len(derived) = 2
    /\ Delivered(1) /\ Delivered(2)
    /\ ~StreamStopped
    /\ \E s \in DOMAIN received : received[s] = <<1, 2>>


\* C11: when restart_streaming(), called on a streaming service, returns
\* True, the client is connected, a processing task has been started and
\* is_streaming() is true; and is_streaming() only becomes false when the
\* stream fails or a stop is called.
C11_RestartReestablishes ==
    /\ [][/\ svc.restart = "streaming"
          /\ svc'.restart = "no"
          /\ lastRet'.val = "True"
          => IsConnected' /\ svc'.task = "new" /\ IsStreaming'
        ]_vars
    /\ [][IsStreaming /\ ~IsStreaming' =>
             svc'.task = "failed" \/ svc'.shutdown]_vars


\* A step in which stop_event_stream() is entered.
StopEventStreamEntered ==
    /\ svc.stopPc = "idle"
    /\ \/ lastRet' # lastRet /\ lastRet'.op = "stop_event_stream"
       \/ svc'.stopPc = "await_task"

\* C12: stop_event_stream() on a service that is not streaming returns
\* without raising and changes nothing in the service, the producer, the
\* client or the bus; and whenever stop_event_stream() returns, a second
\* call in a row included, it has not raised and is_streaming() is false.
C12_StopIdempotent ==
    /\ [][~IsStreaming /\ StopEventStreamEntered =>
             /\ lastRet' = [op |-> "stop_event_stream", arg |-> lastRet'.arg,
                            val |-> "None"]
             /\ UNCHANGED <<busVars, svcVars>>
        ]_vars
    /\ [][StopEventStreamReturns =>
             lastRet'.val = "None" /\ ~IsStreaming']_vars

\* A second stop_event_stream() in a row has returned, after a first that
\* stopped a streaming service.
C12_Witness ==
    /\ lastRet = [op |-> "stop_event_stream", arg |-> 1, val |-> "None"]
    /\ svc.task \in {"done", "cancelled"}
    /\ ~svc.taskRef /\ ~svc.prodRunning /\ ~isRunning


\* A step in which an attempt of listen() fails: the GET is refused or
\* breaks, or the open stream breaks.
AttemptFails ==
    /\ svc.task \in {"connecting", "streaming"}
    /\ svc'.task \in {"sleeping", "failed"}

C14_DelayBeforeEveryRetry ==
    /\ [][svc.task # "connecting" /\ svc'.task = "connecting" =>
             svc.task \in {"new", "sleeping"}]_vars
    /\ [](svc.empty <= MaxRetries)


\* A step in which start() is called.
StartCalled ==
    \/ lastRet' # lastRet /\ lastRet'.op = "start"
    \/ Len(loops') > Len(loops)

\* C15: start() on a running bus raises RuntimeError and changes nothing:
\* the bus is still running, no dispatch task is created, the queue and
\* the subscriptions are as they were.
C15_StartWhileRunning ==
    [][isRunning /\ StartCalled =>
          /\ lastRet' = [op |-> "start", arg |-> 0, val |-> "RuntimeError"]
          /\ isRunning'
          /\ loops' = loops
          /\ eventQueue' = eventQueue
          /\ subscriptions' = subscriptions
          /\ UNCHANGED busVars
      ]_vars

\* start() has raised on a running bus with one dispatch task, a
\* subscription and a queued event.
C15_Witness ==
    /\ lastRet = [op |-> "start", arg |-> 0, val |-> "RuntimeError"]
    /\ isRunning
    /\ Len(loops) = 1 /\ ~Finished(1)
    /\ subscriptions # <<>>
    /\ eventQueue # <<>>


\* A step in which publish() is called.
PublishCalled ==
    \/ lastRet' # lastRet /\ lastRet'.op = "publish"
    \/ published' > published

\* C16: publish() on a bus that is not running raises RuntimeError and
\* leaves the queue, the tasks and the record of accepted events as they
\* were; and a handler is only ever invoked with an event that a publish()
\* on the running bus accepted.
C16_PublishWhileStopped ==
    /\ [][~isRunning /\ PublishCalled =>
             /\ lastRet' = [op |-> "publish", arg |-> 0,
                            val |-> "RuntimeError"]
             /\ eventQueue' = eventQueue
             /\ handlerTasks' = handlerTasks
             /\ UNCHANGED <<busVars, ghostVars>>
        ]_vars
    /\ [][published' > published => isRunning]_vars
    /\ [](\A s \in DOMAIN received : \A i \in DOMAIN received[s] :
             received[s][i] \in 1..published)
    /\ [](\A i \in DOMAIN eventQueue :
             eventQueue[i] = NoneItem \/ eventQueue[i].seq \in 1..published)

\* publish() has raised on a bus that was started and then stopped.
C16_Witness ==
    /\ lastRet = [op |-> "publish", arg |-> 0, val |-> "RuntimeError"]
    /\ ~isRunning
    /\ Len(loops) >= 1


\* The events in the queue, without the sentinels.
QueuedSeqs ==
    LET idx == {i \in DOMAIN eventQueue : eventQueue[i] # NoneItem}
    IN [i \in idx |-> eventQueue[i].seq]

\* C17: on a running bus publish() can always be completed, whatever the
\* handler tasks are doing, and the call returns None with its event put
\* last on the queue, the queue being otherwise as it was; so the queue
\* holds the events in the order of their publish() calls.
C17_PublishNeverWaits ==
    /\ [](isRunning /\ published < env.maxPublish =>
             \A shape \in env.shapes : ENABLED Publish(shape))
    /\ [][isRunning /\ PublishCalled =>
             /\ lastRet'.op = "publish" /\ lastRet'.val = "None"
             /\ Len(eventQueue') = Len(eventQueue) + 1
             /\ SubSeq(eventQueue', 1, Len(eventQueue)) = eventQueue
             /\ eventQueue'[Len(eventQueue')].seq = published'
             /\ handlerTasks' = handlerTasks
        ]_vars
    /\ [](\A i, j \in DOMAIN QueuedSeqs :
             i < j => QueuedSeqs[i] < QueuedSeqs[j])

\* publish() has returned for a second event, called while the handler
\* of the first was suspended, and that handler is still suspended.
C17_Witness ==
    /\ lastRet = [op |-> "publish", arg |-> 1, val |-> "None"]
    /\ published = 2
    /\ \E h \in handlerTasks : h.st = "suspended" /\ h.seq = 1
    /\ \E i \in DOMAIN eventQueue : eventQueue[i].seq = 2


\* The step is a call of update_from_event with an event of one of the
\* given types.
EventApplied(types) ==
    /\ cacheCall'.n = cacheCall.n + 1
    /\ cacheCall'.op = "update_from_event"
    /\ cacheCall'.event_type \in types

\* C18: after a delete event for (type, id) neither the entry nor the
\* timestamp of the id is there, whether the entry was there or not; a
\* delete of a key that has no entry changes nothing in the cache (so the
\* same delete applied a second time gives the cache of the first).
C18_DeleteRemovesOrChangesNothing ==
    [][EventApplied({"delete"}) =>
          LET t == cacheCall'.resource_type
              id == cacheCall'.resource_id
          IN /\ ~Cached(cache', t, id)
             /\ id \notin DOMAIN cache'.last_update
             /\ ~Cached(cache, t, id) => cache' = cache
      ]_vars

\* C19: an update or add event for a (type, id) that has no entry leaves
\* the four maps and the timestamps as they were, and every entry of the
\* cache is under a key that update_from_rest wrote and that no delete
\* event and no clear() has removed since.
C19_OnlyRestCreates ==
    /\ [][(/\ EventApplied({"update", "add"})
           /\ ~Cached(cache, cacheCall'.resource_type, cacheCall'.resource_id))
             => cache' = cache
        ]_vars
    /\ [](\A t \in CachedTypes, id \in CacheIds :
             Cached(cache, t, id) => <<t, id>> \in written)

\* An add event carrying a brightness has been applied for a light that
\* has no entry, while a room of the same id has one, with its timestamp.
C19_Witness ==
    /\ cacheCall.op = "update_from_event"
    /\ cacheCall.event_type = "add"
    /\ cacheCall.resource_type = "light"
    /\ cacheCall.dimming = EventDimming(75)
    /\ ~Cached(cache, "light", cacheCall.resource_id)
    /\ Cached(cache, "room", cacheCall.resource_id)
    /\ cacheCall.resource_id \in DOMAIN cache.last_update

\* C20: an update or add event for a (type, id) that has an entry changes
\* in the snapshot the on-state and the brightness that its payload
\* carries, where the snapshot has these, and nothing else: the on-state
\* and the dimming that it does not carry, the minimum dim level and the
\* rest of the snapshot stay as they were; and the timestamp of the id
\* becomes the event's.
C20_PatchOverwritesCarriedOnly ==
    [][(/\ EventApplied({"update", "add"})
        /\ Cached(cache, cacheCall'.resource_type, cacheCall'.resource_id))
          => LET event == cacheCall'
                 m == MapOf(event.resource_type)
                 old == cache[m][event.resource_id]
                 new == cache'[m][event.resource_id]
             IN /\ new.name = old.name
                /\ new.attrs = old.attrs
                /\ IF event.on # NoOn /\ "on" \in old.attrs
                   THEN new.on.on = event.on.on
                   ELSE new.on = old.on
                /\ IF event.dimming # NoDimming /\ "dimming" \in old.attrs
                   THEN /\ new.dimming.brightness = event.dimming.brightness
                        /\ new.dimming.min_dim_level = old.dimming.min_dim_level
                   ELSE new.dimming = old.dimming
                /\ cache'.last_update[event.resource_id] = event.timestamp
      ]_vars

\* The timestamp get_last_update gives for an id: a set, empty for None.
LastUpdate(c, id) == IF id \in DOMAIN c.last_update
                     THEN {c.last_update[id]} ELSE {}

\* C21: a call of update_from_rest or update_from_event for the key
\* (t, id) leaves the entry and the last-updated timestamp of every other
\* key that has an entry as they were, also of a key with the same id
\* under another resource type.
C21_KeyedByTypeAndId ==
    [][(/\ cacheCall'.n = cacheCall.n + 1
        /\ cacheCall'.op \in {"update_from_rest", "update_from_event"})
          => \A t \in CachedTypes, id \in CacheIds :
                (/\ <<t, id>> # <<cacheCall'.resource_type,
                                  cacheCall'.resource_id>>
                 /\ Cached(cache, t, id))
                  => /\ Cached(cache', t, id)
                     /\ cache'[MapOf(t)][id] = cache[MapOf(t)][id]
                     /\ LastUpdate(cache', id) = LastUpdate(cache, id)
      ]_vars

\* C22: what a read accessor returned is a copy: an assignment the caller
\* makes to it leaves the cache as it was, and a patch event (or any other
\* call on the StateManager) leaves the returned value as it was.
C22_ReadOnlyCopies ==
    /\ [][(cacheCall'.n = cacheCall.n + 1 /\ cacheCall'.op = "caller_sets")
             => cache' = cache]_vars
    /\ [][(cacheCall'.n = cacheCall.n + 1 /\ cacheCall'.op # "caller_sets"
                                          /\ cacheCall'.op # "get"
                                          /\ held.has)
             => held'.value = held.value]_vars

\* A step in which start_event_stream() is called and returns or raises.
StartEventStreamCalled ==
    lastRet' # lastRet /\ lastRet'.op = "start_event_stream"

\* C23: start_event_stream() on a streaming service returns None and
\* leaves the producer, the transport, the processing task and the bus
\* as they are; and whenever start_event_stream() creates a processing
\* task, the task the service had before, if any, has ended, so no two
\* are alive.
C23_StartWhileStreaming ==
    /\ [][(IsStreaming /\ StartEventStreamCalled)
             => /\ lastRet'.val = "None"
                /\ svc' = svc
                /\ busVars' = busVars
        ]_vars
    /\ [][(~IsStreaming /\ StartEventStreamCalled /\ lastRet'.val = "None")
             => /\ svc'.task = "new"
                /\ svc.task = "none" \/ TaskDone
        ]_vars

\* start_event_stream() has returned on a service whose processing task
\* is reading the open stream.
C23_Witness ==
    /\ lastRet = [op |-> "start_event_stream", arg |-> 1, val |-> "None"]
    /\ IsStreaming
    /\ svc.task = "streaming"
    /\ Len(loops) = 1

\* What publish() makes of the events of one message on a running bus.
Accepted(events) ==
    [i \in 1..Len(events) |-> BusEvent(events[i], published + i)]

\* C24: when _process_events is given a message and shutdown is not set,
\* the message is transformed; on a running bus its events are put on the
\* queue in the transformer's order, and on a stopped bus, where publish()
\* raises, nothing is put; in both cases the processing task is alive
\* afterwards, reading the stream for the next message.
C24_ProcessingErrorCaught ==
    [][(stream' = stream + 1 /\ ~svc.shutdown)
         => /\ svc'.task = "streaming"
            /\ \E m \in env.messages :
                  /\ derived' = derived \o Transform(m)
                  /\ eventQueue' = IF isRunning
                                   THEN eventQueue \o Accepted(Transform(m))
                                   ELSE eventQueue
      ]_vars

\* Two messages have been processed: publish() raised for the events of
\* the first (the bus was stopped), the bus was started again, and the
\* event of the second was accepted; the task is still reading.
C24_Witness ==
    /\ stream = 2
    /\ derived = Transform(TwoChanges) \o Transform(OneDelete)
    /\ published = 1
    /\ history[1].ev.event_type = "delete"
    /\ svc.task = "streaming"

\* listen() has raised ConnectionError: the failed attempts in a row have
\* reached max_retries, and the processing task has ended on it.
ConnectionLost == svc.task = "failed" /\ svc.retry >= MaxRetries

\* C25: is_running() of the producer is its running flag together with
\* is_connected() of the transport, and it is false once listen() has
\* given up with ConnectionError, before any stop().
C25_NotRunningOnceLost ==
    /\ ProducerIsRunning <=> (svc.prodRunning /\ IsConnected)
    /\ ConnectionLost => ~ProducerIsRunning

\* The data lines and the id lines of a frame.
LinesOf(frame, key) == {i \in DOMAIN frame : frame[i].key = key}

\* A frame that cannot be parsed: it has no data line, or one data line
\* whose text is empty, is not JSON or is not a list of events.
Unparseable(frame) ==
    \/ LinesOf(frame, "data") = {}
    \/ /\ Cardinality(LinesOf(frame, "data")) = 1
       /\ \A i \in LinesOf(frame, "data") : frame[i].kind # "events"

\* A well-formed frame: one data line with a list of events, and at most
\* one id line.
WellFormed(frame) ==
    /\ Cardinality(LinesOf(frame, "data")) = 1
    /\ \A i \in LinesOf(frame, "data") : frame[i].kind = "events"
    /\ Cardinality(LinesOf(frame, "id")) <= 1

\* The message of a well-formed frame carries the id of its id line, if it
\* has one, and the events of its data line.
IsMessageOf(message, frame) ==
    /\ message.some
    /\ \A i \in LinesOf(frame, "data") : message.data = frame[i].msg
    /\ \A i \in LinesOf(frame, "id") : message.id = frame[i].id
    /\ LinesOf(frame, "id") = {} => message.id = "None"

\* C26: for every frame listen() gives to get_event_stream, the sequence
\* goes on; a frame that cannot be parsed adds no message, a well-formed
\* frame adds its message after those yielded before, and no frame adds
\* more than one message.
C26_BadFrameSkipped ==
    [][sse'.n = sse.n + 1
         => /\ sse'.alive
            /\ Len(sse'.yielded) <= Len(sse.yielded) + 1
            /\ SubSeq(sse'.yielded, 1, Len(sse.yielded)) = sse.yielded
            /\ Unparseable(sse'.last) => sse'.yielded = sse.yielded
            /\ WellFormed(sse'.last)
                 => /\ Len(sse'.yielded) = Len(sse.yielded) + 1
                    /\ IsMessageOf(sse'.yielded[Len(sse'.yielded)], sse'.last)
      ]_vars

\* Three frames have been given: one whose data is not JSON between two
\* well-formed ones, whose two messages have been yielded, and the
\* sequence has not ended.
C26_Witness ==
    /\ sse.n = 3
    /\ sse.alive
    /\ Len(sse.yielded) = 2
    /\ sse.yielded[1].id = "m1"
    /\ sse.yielded[2].id = "m2"
    /\ WellFormed(sse.last)

\* The changes of a message whose internal event can be constructed, and
\* the place of one of them among these.
Constructible(m) ==
    {p \in ChangesOf(m) : Constructs(m[p[1]].data[p[2]])}
RankAmong(m, p) == Cardinality({q \in Constructible(m) : Before(q, p)}) + 1

\* C27: transform() returns (it never raises), and what it returns is one
\* event for every change of the message whose event can be constructed,
\* in envelope order and then change order: a change whose construction
\* fails is left out and nothing else is.
C27_OnlyFailingChangeSkipped ==
    transformed.done =>
       LET m == transformed.msg
           out == transformed.out
       IN /\ Len(out) = Cardinality(Constructible(m))
          /\ \A p \in Constructible(m) :
                LET e == out[RankAmong(m, p)]
                IN /\ e.event_id = m[p[1]].id
                   /\ e.resource_type = m[p[1]].data[p[2]].type
                   /\ e.resource_id = m[p[1]].data[p[2]].id

\* The step in which a stop() that found the bus running returns after its
\* dispatch task has exited within the timeout, with no start() made while
\* it waited: what publish() accepted before the call is then all that it
\* accepted so far.
StopReturnsDrained ==
    /\ stopper.pc = "wait_for"
    /\ stopper'.pc = "idle"
    /\ Finished(stopper.task)
    /\ stopper.task = Len(loops)

\* C28: when stop() returns on a bus whose dispatch task has exited by
\* itself, every event publish() accepted before the call was dequeued and
\* its dispatch has ended, and the queue holds no accepted event.
C28_StopDrains ==
    [][StopReturnsDrained =>
          /\ \A n \in 1..published : history[n].done
          /\ \A i \in DOMAIN eventQueue' : eventQueue'[i] = NoneItem]_vars

\* C29: whenever is_running() is true, the dispatch task of the bus is alive:
\* created and neither returned nor cancelled.
C29_RunningHasLiveTask ==
    isRunning => loops # <<>> /\ ~Finished(Len(loops))

\* C30: a handler is never given, by the dispatch task of a later running
\* period, an event that publish() accepted in an earlier one.
C30_NoDispatchAcrossPeriods ==
    \A h \in handlerTasks : h.loop <= history[h.seq].period

\* The dispatch tasks that have been created and have neither returned nor
\* been cancelled: each of them takes items from the one queue of the bus.
LiveLoops == {l \in DOMAIN loops : ~Finished(l)}

\* C31: at most one dispatch task is alive at any time, whatever the
\* interleaving of start() and stop() calls.
C31_OneDispatchLoop == Cardinality(LiveLoops) <= 1

\* The step in which a stop() that found the bus running returns, after its
\* dispatch task exited or after the timeout.
StopReturns == stopper.pc = "wait_for" /\ stopper'.pc = "idle"

\* The step that is a stop() call on a bus that is not running.
StopOnStopped ==
    /\ stopper.pc = "idle"
    /\ ~isRunning
    /\ lastRet' # lastRet
    /\ lastRet'.op = "stop"

\* C32: when stop() returns on a bus it found running, is_running() is
\* false, every dispatch task has finished and the table is empty; stop()
\* on a bus that is not running changes nothing of the bus.
C32_StopLeavesBusStopped ==
    [][/\ StopReturns =>
             /\ ~isRunning'
             /\ \A l \in DOMAIN loops' : loops'[l].st \in {"done", "cancelled"}
             /\ subscriptions' = <<>>
       /\ StopOnStopped => UNCHANGED <<busVars, ghostVars>>]_vars

\* C33 (termination): a stop() that found the bus running returns, also
\* when a handler stays suspended for ever.
C33_StopAlwaysReturns == (stopper.pc = "wait_for") ~> (stopper.pc = "idle")

\* C33 (outcome): when such a stop() returns while a handler of the
\* dispatch task it waited for is still suspended, that task has been
\* cancelled, the bus is not running and the table is empty.
C33_TimeoutLeavesBusStopped ==
    [][(StopReturns /\ \E h \in TasksOf(stopper.task) : h.st = "suspended") =>
          /\ loops'[stopper.task].st \in {"done", "cancelled"}
          /\ ~isRunning'
          /\ subscriptions' = <<>>]_vars

\* stop_event_stream() goes on from `await self._processing_task` to
\* producer.stop(), and from producer.stop() to bus.stop().
ProducerStopBegins == svc.stopPc = "await_task" /\ svc'.stopPc # "await_task"
BusStopBegins ==
    /\ svc.stopPc \in {"await_task", "aclose"}
    /\ svc'.stopPc \notin {"await_task", "aclose"}

\* C34: stop_event_stream() begins producer.stop() only when the processing
\* task has finished, which it still is while the producer closes; it calls
\* bus.stop() only when the producer is stopped; and the processing task
\* publishes the events of a message only on a running bus.
C34_TaskThenProducerThenBus ==
    [][/\ ProducerStopBegins => TaskDone
       /\ svc.stopPc = "aclose" => TaskDone
       /\ BusStopBegins =>
             /\ svc.task \in {"done", "failed", "cancelled"}
             /\ ~svc'.prodRunning
             /\ ~svc'.connected
       /\ (stream' = stream + 1 /\ ~svc.shutdown) => isRunning]_vars

\* stop_event_stream() has returned on a service that was streaming and had
\* published the events of a message: the task is done, the producer and
\* the bus are stopped.
C34_Witness ==
    /\ svc.stopPc = "idle"
    /\ svc.shutdown
    /\ published > 0
    /\ TaskDone
    /\ ~svc.prodRunning
    /\ ~isRunning

\* The subscriptions whose handlers event n was given to.
ReceiversOf(n) == {s \in SubIds : Count(n, received[s]) > 0}

\* The entries of the table at the dequeue of event n whose filter it
\* matches.
MatchingAtDequeue(n) ==
    {s \in DOMAIN history[n].table.subs :
        MatchesFilter(history[n].ev, history[n].table.subs[s].filter)}

\* C35: an event is given only to handlers of the table as it was at its
\* dequeue, each at most once, and when its dispatch has ended to all of
\* them: a subscription made between publish() and the dequeue is among
\* them, one removed in between is not, and what is subscribed or
\* unsubscribed after the dequeue, during the dispatch, changes nothing
\* for this event.
C35_TableAtDequeue ==
    \A n \in DOMAIN history :
       /\ ReceiversOf(n) # {} => history[n].table.seen
       /\ ReceiversOf(n) \subseteq MatchingAtDequeue(n)
       /\ \A s \in SubIds : Count(n, received[s]) <= 1
       /\ history[n].done => ReceiversOf(n) = MatchingAtDequeue(n)

\* Event 1 was published with subscription 1 in the table; before its
\* dequeue subscription 1 was removed and subscription 2 made: handler 2
\* got it and handler 1 did not.
C35_Witness ==
    /\ published >= 1
    /\ history[1].done
    /\ history[1].before = {1}
    /\ DOMAIN history[1].table.subs = {2}
    /\ received[2] = <<1>>
    /\ received[1] = <<>>

\* Event 1 was dequeued with subscription 1 alone in the table; while its
\* handler was suspended subscription 1 was removed and subscription 2
\* made: the dispatch of event 1 ended with handler 1 alone having got it.
C35_WitnessDuringDispatch ==
    /\ published >= 1
    /\ history[1].done
    /\ DOMAIN history[1].table.subs = {1}
    /\ DOMAIN subscriptions = {2}
    /\ received[1] = <<1>>
    /\ received[2] = <<>>

\* The maximal runs of consecutive non-blank lines of a sequence, as pairs
\* of their first and last place, and those among them that a frame is
\* due for: all of them when the lines have ended, else the ones a blank
\* line has closed.
NonBlank(lines, i) == lines[i] \notin {"", " "}
RunsOf(lines) ==
    {r \in (DOMAIN lines) \X (DOMAIN lines) :
        /\ r[1] <= r[2]
        /\ \A i \in r[1]..r[2] : NonBlank(lines, i)
        /\ r[1] = 1 \/ ~NonBlank(lines, r[1] - 1)
        /\ r[2] = Len(lines) \/ ~NonBlank(lines, r[2] + 1)}
RunsDue(lines, ended) == {r \in RunsOf(lines) : ended \/ r[2] < Len(lines)}
RunText(lines, r) == [i \in 1..(r[2] - r[1] + 1) |-> lines[r[1] + i - 1]]

C37_TimestampIffCached ==
    \A id \in CacheIds :
       (LastUpdate(cache, id) # {})
          <=> (\E t \in CachedTypes : Cached(cache, t, id))

\* The step in which start_event_stream() raises: the RuntimeError of
\* bus.start() on a running bus (the repository's EventClient.connect
\* raises nothing, so producer.start() does not).
StartEventStreamRaises ==
    /\ StartEventStreamCalled
    /\ lastRet'.val = "RuntimeError"

\* C38: when start_event_stream() raises, the producer is not running, the
\* bus is not running, the service has no processing task that is alive,
\* and the service is as it was before the call.
C38_FailedStartLeavesNothing ==
    [][StartEventStreamRaises =>
          /\ ~svc'.prodRunning
          /\ ~isRunning'
          /\ ~svc'.taskRef \/ svc'.task \in {"done", "failed", "cancelled"}
          /\ svc' = svc]_vars

\* C39: the table of the bus never holds more than one subscription of the
\* client (it holds no others here), and no event is given to the client's
\* handler more than once.
C39_OneSyncSubscription ==
    /\ Cardinality(DOMAIN subscriptions) <= 1
    /\ \A n \in DOMAIN history :
          /\ Cardinality(ReceiversOf(n)) <= 1
          /\ \A s \in SubIds : Count(n, received[s]) <= 1

====
